---- MODULE Spec2Model ----
(***************************************************************************)
(* A model of leger-rs: the Rpc session (src/src/rpc/mod.rs), the Provider *)
(* facade with its Chain capability (src/src/lib.rs) and Account::get_info *)
(* (src/src/account/mod.rs).                                               *)
(*                                                                         *)
(* The library is single-threaded and synchronous: every public operation  *)
(* is one action.  The transport (TcpClientStack), the WebSocket codec and *)
(* the peer are external: each of their calls has its outcome drawn from   *)
(* the outcomes its signature allows.                                      *)
(***************************************************************************)
EXTENDS Integers, Sequences, FiniteSets, TLC

\* ------------------------------------------------------------------ bounds

\* Requests one session issues before the model stops issuing more.
MaxCalls == 4

\* ------------------------------------------------------- program constants

\* [u8; 32] block hashes and keys.
HashLen == 32

\* REQ_SIZE: the storage key of System::Account(account_id).
REQ_SIZE == 80

\* size of the AccountInfo layout, [u8; 72].
AccountInfoLen == 72

\* ----------------------------------------------------------------- strings

\* A string is a sequence of one-character strings.
Rep(c, n) == [i \in 1..n |-> c]

\* str::strip_prefix("0x").map_or(res, |v| v)
StripPrefix0x(s) ==
  IF Len(s) >= 2 /\ s[1] = "0" /\ s[2] = "x" THEN SubSeq(s, 3, Len(s)) ELSE s

\* the value of one hex digit, -1 for any other character (the hex crate takes
\* both cases)
HexVal(c) ==
  CASE c = "0" -> 0 [] c = "1" -> 1 [] c = "2" -> 2 [] c = "3" -> 3
    [] c = "4" -> 4 [] c = "5" -> 5 [] c = "6" -> 6 [] c = "7" -> 7
    [] c = "8" -> 8 [] c = "9" -> 9
    [] c \in {"a", "A"} -> 10 [] c \in {"b", "B"} -> 11 [] c \in {"c", "C"} -> 12
    [] c \in {"d", "D"} -> 13 [] c \in {"e", "E"} -> 14 [] c \in {"f", "F"} -> 15
    [] OTHER -> -1

\* hex::decode_to_slice(data, out) with |out| = outLen: it fails on an odd
\* length, on a length other than 2 * outLen and on a character that is no hex
\* digit; otherwise out holds the decoded bytes.
HexDecodeToSlice(data, outLen) ==
  IF Len(data) % 2 # 0 THEN [ok |-> FALSE, bytes |-> <<>>]
  ELSE IF Len(data) \div 2 # outLen THEN [ok |-> FALSE, bytes |-> <<>>]
  ELSE IF \E i \in 1..Len(data) : HexVal(data[i]) < 0
  THEN [ok |-> FALSE, bytes |-> <<>>]
  ELSE [ok |-> TRUE,
        bytes |-> [i \in 1..outLen |->
                     16 * HexVal(data[2 * i - 1]) + HexVal(data[2 * i])]]

\* --------------------------------------------------------------- the peer

\* The result strings a peer answers with: a name, a prefixed hash, an
\* unprefixed hash, a hash one byte short, a hash with a character that is no
\* hex digit.
StrName == <<"n", "o", "d", "e">>
StrHashA == <<"0", "x">> \o Rep("a", 2 * HashLen)
StrHashB == Rep("1", 2 * HashLen)
StrHashShort == <<"0", "x">> \o Rep("a", 2 * HashLen - 2)
StrHashBad == <<"0", "x">> \o Rep("a", 2 * HashLen - 1) \o <<"g">>

\* state_getStorage answers: 72 bytes with nonce 7, 72 bytes with nonce 9 and
\* free balance 5, 4 bytes only, more hex digits than the request buffer
\* has bytes, and 72 bytes with a character that is no hex digit.
StrAcctA == <<"0", "x", "0", "7">> \o Rep("0", 2 * AccountInfoLen - 2)
StrAcctB ==
  <<"0", "x", "0", "9">> \o Rep("0", 14) \o <<"0", "5">> \o Rep("0", 2 * AccountInfoLen - 18)
StrAcctShort == <<"0", "x", "0", "8", "0", "0", "0", "0", "0", "0">>
StrAcctLong == <<"0", "x">> \o Rep("0", 2 * (2 + 2 * REQ_SIZE) + 2)
StrAcctBad == <<"0", "x">> \o Rep("0", 2 * AccountInfoLen - 1) \o <<"g">>

\* 72 bytes with the nonce 2^32 - 1
StrAcctMax == <<"0", "x">> \o Rep("f", 8) \o Rep("0", 2 * AccountInfoLen - 8)

NameStrs == {StrName}
HashStrs == {StrHashA, StrHashB, StrHashShort, StrHashBad}
AcctStrs == {StrAcctA, StrAcctB, StrAcctShort, StrAcctLong, StrAcctBad}

\* error.code values of a JSON-RPC error object
ErrorCodes == {-32600, -32601}

\* The text of one inbound Text frame, by what the two serde structures see
\* in it.  wf: it is a JSON object with an `id` (usize) and a `jsonrpc`
\* (string); result: the shape of its `result` member; error: the shape of its
\* `error` member ("nocode": an object without `code`; "malformed": not an
\* object, or `code` is no integer).
Body(wf, id, result, rstr, error, code) ==
  [wf |-> wf, id |-> id, result |-> result, rstr |-> rstr, error |-> error,
   code |-> code]

NoBody == Body(FALSE, 0, "absent", <<>>, "absent", 0)

\* A text that is no JSON-RPC object (wf = FALSE) is carried whole in rstr.
RawBodies == {Body(FALSE, 0, "absent", s, "absent", 0) : s \in {<<>>, StrHashA}}

\* The text of a body, as far as a hex decoder can tell: a JSON object begins
\* with a brace, which is no hex digit.
BodyText(b) == IF b.wf THEN <<"{", "}">> ELSE b.rstr

\* The texts a peer may answer one request with: ids are the ids it may put
\* in them, strs the strings it may give as `result`.
Bodies(ids, strs) ==
  RawBodies \cup
  {Body(TRUE, i, "absent", <<>>, e, 0) :
     i \in ids, e \in {"absent", "nocode", "malformed"}} \cup
  {Body(TRUE, i, r, <<>>, "absent", 0) : i \in ids, r \in {"null", "object"}} \cup
  {Body(TRUE, i, r, <<>>, "code", c) :
     i \in ids, r \in {"null", "absent", "object"}, c \in ErrorCodes} \cup
  {Body(TRUE, i, "string", s, "absent", 0) : i \in ids, s \in strs} \cup
  {Body(TRUE, i, "string", StrName, "code", c) : i \in ids, c \in ErrorCodes}

\* the ids a peer may answer the request id with: its own, an earlier one, a
\* later one
RespIds(id) == {id - 1, id, id + 1}

\* WebSocketReceiveMessageType
FrameTypes == {"Text", "Binary", "CloseCompleted", "CloseMustReply", "Ping", "Pong"}

\* payloads of an inbound close frame
ClosePayloads == {"1000", "1001"}

Frame(type, utf8, body, payload) ==
  [type |-> type, utf8 |-> utf8, body |-> body, payload |-> payload]

Frames(ids, strs) ==
  {Frame("Text", TRUE, b, "") : b \in Bodies(ids, strs)} \cup
  {Frame("Text", FALSE, NoBody, "")} \cup
  {Frame("CloseMustReply", TRUE, NoBody, p) : p \in ClosePayloads} \cup
  {Frame(t, TRUE, NoBody, "") : t \in {"Binary", "CloseCompleted", "Ping", "Pong"}}

\* ---------------------------------------------------------------- results

\* A Result of the library: tag is Ok or Err; kind names the Ok value's form or
\* the error variant; the other fields carry the payload.
Res(tag, kind, code, str, body, bytes) ==
  [tag |-> tag, kind |-> kind, code |-> code, str |-> str, body |-> body,
   bytes |-> bytes]

OkUnit == Res("Ok", "unit", 0, <<>>, NoBody, <<>>)
OkText(b) == Res("Ok", "text", 0, <<>>, b, <<>>)
OkStr(s) == Res("Ok", "result", 0, s, NoBody, <<>>)
OkBody(b) == Res("Ok", "body", 0, <<>>, b, <<>>)
OkBytes(bs) == Res("Ok", "bytes", 0, <<>>, NoBody, bs)
Err(kind) == Res("Err", kind, 0, <<>>, NoBody, <<>>)
ErrCode(c) == Res("Err", "Json.ErrorCode", c, <<>>, NoBody, <<>>)
NoRes == Res("None", "", 0, <<>>, NoBody, <<>>)

\* embedded_nal::nb::Error<TcpError> -> RpcError::Embedded(err)
EmbeddedErr(e) == Err(IF e = "wouldblock" THEN "Embedded.WouldBlock" ELSE "Embedded.Other")

\* ----------------------------------------------------------------- events

\* One call into the transport or the codec, in the order the code makes them.
\* kind is the kind of frame it is about; a request's frame carries its id,
\* its method (data) and its params (arg); ret is what the call returned ("ok",
\* "short": Ok with a count other than the frame's length, "wouldblock",
\* "other", "error"); a ws_read carries the frame the codec parsed.
Ev(ev, kind, id, data, arg, ret) ==
  [ev |-> ev, kind |-> kind, id |-> id, data |-> data, arg |-> arg, ret |-> ret,
   body |-> NoBody]

EvRead(f) ==
  [ev |-> "ws_read", kind |-> f.type, id |-> 0, data |-> f.payload,
   arg |-> IF f.utf8 THEN "" ELSE "invalid-utf8", ret |-> "ok", body |-> f.body]

EvReadFailed == Ev("ws_read", "error", 0, "", "", "error")

\* what a codec call returned
CodecRet(ok) == IF ok THEN "ok" ELSE "error"

\* a call's outcome: its result and the calls it made
Out(res, events) == [res |-> res, events |-> events]

\* -------------------------------------------------------------------- Rpc

\* The outcomes of the external calls one Rpc::request makes: wsw, the codec
\* composes the Text frame; snd, the transport's send ("short": Ok with a count
\* other than the frame's length); rcv, the transport's receive; wsr, the codec
\* parses the inbound frame; frame, that frame; cw and cs, the composition and
\* the send of a CloseReply.
ReqEnv(wsw, snd, rcv, wsr, frame, cw, cs) ==
  [wsw |-> wsw, snd |-> snd, rcv |-> rcv, wsr |-> wsr, frame |-> frame,
   cw |-> cw, cs |-> cs]

DefFrame == Frame("Binary", TRUE, NoBody, "")

NbErrors == {"wouldblock", "other"}

\* Every outcome, with the calls that are not reached left at a default.
ReqEnvs(ids, strs) ==
  {ReqEnv(FALSE, "ok", "ok", TRUE, DefFrame, TRUE, "ok")} \cup
  {ReqEnv(TRUE, s, "ok", TRUE, DefFrame, TRUE, "ok") : s \in NbErrors \cup {"short"}} \cup
  {ReqEnv(TRUE, "ok", r, TRUE, DefFrame, TRUE, "ok") : r \in NbErrors} \cup
  {ReqEnv(TRUE, "ok", "ok", FALSE, DefFrame, TRUE, "ok")} \cup
  {ReqEnv(TRUE, "ok", "ok", TRUE, f, TRUE, "ok") : f \in Frames(ids, strs)} \cup
  {ReqEnv(TRUE, "ok", "ok", TRUE, Frame("CloseMustReply", TRUE, NoBody, p), FALSE, "ok") :
     p \in ClosePayloads} \cup
  {ReqEnv(TRUE, "ok", "ok", TRUE, Frame("CloseMustReply", TRUE, NoBody, p), TRUE, s) :
     p \in ClosePayloads, s \in NbErrors \cup {"short"}}

\* the request a call frames: its id, its method and its params
Msg(id, method, arg) == [id |-> id, method |-> method, arg |-> arg]

\* as RequestMatch, with a close frame treated as any other frame that is no
\* Text
RequestMatchNoReply(e, evs) ==
  CASE e.frame.type = "Text" ->
         IF e.frame.utf8 THEN Out(OkText(e.frame.body), evs)
         ELSE Out(Err("Utf8Error"), evs)
    [] OTHER -> Out(Err("WebSocket.Unknown"), evs)

\* Rpc::request, after the frame has been read: the match on its type.
RequestMatch(e, evs) ==
  CASE e.frame.type = "Text" ->
         IF e.frame.utf8 THEN Out(OkText(e.frame.body), evs)
         ELSE Out(Err("Utf8Error"), evs)
    [] e.frame.type = "CloseMustReply" ->
         IF ~e.cw
         THEN Out(Err("WebSocket.Codec"),
                  evs \o <<Ev("ws_write", "CloseReply", 0, e.frame.payload, "", "error")>>)
         ELSE IF e.cs \in NbErrors
         THEN Out(EmbeddedErr(e.cs),
                  evs \o <<Ev("ws_write", "CloseReply", 0, e.frame.payload, "", "ok"),
                           Ev("send", "CloseReply", 0, e.frame.payload, "", e.cs)>>)
         ELSE Out(Err("WebSocket.Unknown"),
                  evs \o <<Ev("ws_write", "CloseReply", 0, e.frame.payload, "", "ok"),
                           Ev("send", "CloseReply", 0, e.frame.payload, "", e.cs)>>)
    [] OTHER -> Out(Err("WebSocket.Unknown"), evs)

\* as Request, with the frame sent and awaited once more after a receive that
\* failed
RequestRetried(msg, e) ==
  LET w == Ev("ws_write", "Text", msg.id, msg.method, msg.arg, CodecRet(e.wsw))
      s == Ev("send", "Text", msg.id, msg.method, msg.arg, e.snd)
      r == Ev("receive", "Text", 0, "", "", e.rcv)
  IN IF ~e.wsw THEN Out(Err("WebSocket.Codec"), <<w>>)
     ELSE IF e.snd \in NbErrors THEN Out(EmbeddedErr(e.snd), <<w, s>>)
     ELSE IF e.snd = "short" THEN Out(Err("TcpSocket.CountNotMatching"), <<w, s>>)
     ELSE IF e.rcv \in NbErrors THEN Out(EmbeddedErr(e.rcv), <<w, s, r, s, r>>)
     ELSE IF ~e.wsr THEN Out(Err("WebSocket.Codec"), <<w, s, r, EvReadFailed>>)
     ELSE RequestMatch(e, <<w, s, r, EvRead(e.frame)>>)

\* Rpc::request: frame the message, send it, read one frame.
Request(msg, e) ==
  LET w == Ev("ws_write", "Text", msg.id, msg.method, msg.arg, CodecRet(e.wsw))
      s == Ev("send", "Text", msg.id, msg.method, msg.arg, e.snd)
      r == Ev("receive", "Text", 0, "", "", e.rcv)
  IN IF ~e.wsw THEN Out(Err("WebSocket.Codec"), <<w>>)
     ELSE IF e.snd \in NbErrors THEN Out(EmbeddedErr(e.snd), <<w, s>>)
     ELSE IF e.snd = "short" THEN Out(Err("TcpSocket.CountNotMatching"), <<w, s>>)
     ELSE IF e.rcv \in NbErrors THEN Out(EmbeddedErr(e.rcv), <<w, s, r>>)
     ELSE IF ~e.wsr THEN Out(Err("WebSocket.Codec"), <<w, s, r, EvReadFailed>>)
     ELSE RequestMatch(e, <<w, s, r, EvRead(e.frame)>>)

\* as ParsesAsJsonRpc, with `result` a &str that may be absent but not null
ParsesAsJsonRpcNoNull(b) == b.wf /\ b.result \in {"string", "absent"}

\* serde_json_core::from_str::<JsonRpc<Option<&str>>>(res).is_ok(): `id` and
\* `jsonrpc` are required, `result` is an Option<&str> (a string, null or
\* absent), members the structure does not name are skipped.
ParsesAsJsonRpc(b) == b.wf /\ b.result \in {"string", "null", "absent"}

\* as ParsesAsJsonErrorResponse, failing on a text that has a `result` member
ParsesAsJsonErrorResponseStrict(b) == b.wf /\ b.error # "malformed" /\ b.result = "absent"

\* serde_json_core::from_str::<JsonErrorResponse>(res).is_ok()
ParsesAsJsonErrorResponse(b) == b.wf /\ b.error # "malformed"

\* as ParseResponse, without the comparison of the ids
ParseResponseAnyId(id, r) ==
  IF r.tag = "Ok"
  THEN IF ParsesAsJsonRpc(r.body)
       THEN IF r.body.result = "string" THEN OkStr(r.body.rstr)
            ELSE IF ParsesAsJsonErrorResponse(r.body) /\ r.body.error = "code"
                 THEN ErrCode(r.body.code)
                 ELSE Err("Json.ErrorParsing")
       ELSE OkBody(r.body)
  ELSE r

\* as ParseResponse, with the reply to an earlier request taken as well
ParseResponseUpTo(id, r) ==
  IF r.tag = "Ok"
  THEN IF ParsesAsJsonRpc(r.body)
       THEN IF r.body.id <= id
            THEN IF r.body.result = "string" THEN OkStr(r.body.rstr)
                 ELSE IF ParsesAsJsonErrorResponse(r.body) /\ r.body.error = "code"
                      THEN ErrCode(r.body.code)
                      ELSE Err("Json.ErrorParsing")
            ELSE Err("ResponseDoesNotMatch")
       ELSE OkBody(r.body)
  ELSE r

\* Rpc::rpc_method, the match on the response of request()
ParseResponse(id, r) ==
  IF r.tag = "Ok"
  THEN IF ParsesAsJsonRpc(r.body)
       THEN IF r.body.id = id
            THEN IF r.body.result = "string" THEN OkStr(r.body.rstr)
                 ELSE IF ParsesAsJsonErrorResponse(r.body) /\ r.body.error = "code"
                      THEN ErrCode(r.body.code)
                      ELSE Err("Json.ErrorParsing")
            ELSE Err("ResponseDoesNotMatch")
       ELSE OkBody(r.body)
  ELSE r

\* the cmd_id after one rpc_method
NextCmdId(id) == id + 1

\* as RpcMethodReturn, with cmd_id incremented only when the call succeeded
RpcMethodReturnOnOk(id, o) ==
  [res |-> ParseResponse(id, o.res), events |-> o.events,
   cmd |-> IF ParseResponse(id, o.res).tag = "Ok" THEN NextCmdId(id) ELSE id]

\* Rpc::rpc_method with cmd_id = id: the request carries id, cmd_id is
\* incremented before the request is sent, and the response is matched against
\* the id of the request.  cmd is the session's cmd_id after the call.
RpcMethodReturn(id, o) ==
  [res |-> ParseResponse(id, o.res), events |-> o.events, cmd |-> NextCmdId(id)]

RpcMethod(id, method, arg, e) == RpcMethodReturn(id, Request(Msg(id, method, arg), e))

\* the text of an Ok of rpc_method
ResText(r) == IF r.kind = "result" THEN r.str ELSE BodyText(r.body)

\* The outcomes of the external calls of Rpc::connect.
ConnEnv(tcp, hs, snd, rcv, acc) ==
  [tcp |-> tcp, hs |-> hs, snd |-> snd, rcv |-> rcv, acc |-> acc]

ConnEnvs ==
  {ConnEnv(t, TRUE, "ok", "ok", TRUE) : t \in NbErrors} \cup
  {ConnEnv("ok", FALSE, "ok", "ok", TRUE)} \cup
  {ConnEnv("ok", TRUE, s, "ok", TRUE) : s \in NbErrors \cup {"short"}} \cup
  {ConnEnv("ok", TRUE, "ok", r, TRUE) : r \in NbErrors} \cup
  {ConnEnv("ok", TRUE, "ok", "ok", a) : a \in BOOLEAN}

\* as ConnectSteps, without the comparison of the sent count with the length
ConnectStepsAnyCount(addrOk, c) ==
  LET t == Ev("tcp_connect", "Handshake", 0, "", "", c.tcp)
      h == Ev("client_connect", "Handshake", 0, "", "", CodecRet(c.hs))
      s == Ev("send", "Handshake", 0, "", "", c.snd)
      r == Ev("receive", "Handshake", 0, "", "", c.rcv)
      a == Ev("client_accept", "Handshake", 0, "", "", CodecRet(c.acc))
  IN IF ~addrOk THEN Out(Err("TcpSocket.InvalidAddress"), <<>>)
     ELSE IF c.tcp \in NbErrors THEN Out(EmbeddedErr(c.tcp), <<t>>)
     ELSE IF ~c.hs THEN Out(Err("WebSocket.Codec"), <<t, h>>)
     ELSE IF c.snd \in NbErrors THEN Out(EmbeddedErr(c.snd), <<t, h, s>>)
     ELSE IF c.rcv \in NbErrors THEN Out(EmbeddedErr(c.rcv), <<t, h, s, r>>)
     ELSE IF ~c.acc THEN Out(Err("WebSocket.Codec"), <<t, h, s, r, a>>)
     ELSE Out(OkUnit, <<t, h, s, r, a>>)

\* Rpc::connect, from the address on: the TCP connection, the opening
\* handshake composed by the codec, its send, the read of the answer, and the
\* codec's check of it.
ConnectSteps(addrOk, c) ==
  LET t == Ev("tcp_connect", "Handshake", 0, "", "", c.tcp)
      h == Ev("client_connect", "Handshake", 0, "", "", CodecRet(c.hs))
      s == Ev("send", "Handshake", 0, "", "", c.snd)
      r == Ev("receive", "Handshake", 0, "", "", c.rcv)
      a == Ev("client_accept", "Handshake", 0, "", "", CodecRet(c.acc))
  IN IF ~addrOk THEN Out(Err("TcpSocket.InvalidAddress"), <<>>)
     ELSE IF c.tcp \in NbErrors THEN Out(EmbeddedErr(c.tcp), <<t>>)
     ELSE IF ~c.hs THEN Out(Err("WebSocket.Codec"), <<t, h>>)
     ELSE IF c.snd \in NbErrors THEN Out(EmbeddedErr(c.snd), <<t, h, s>>)
     ELSE IF c.snd = "short" THEN Out(Err("TcpSocket.CountNotMatching"), <<t, h, s>>)
     ELSE IF c.rcv \in NbErrors THEN Out(EmbeddedErr(c.rcv), <<t, h, s, r>>)
     ELSE IF ~c.acc THEN Out(Err("WebSocket.Codec"), <<t, h, s, r, a>>)
     ELSE Out(OkUnit, <<t, h, s, r, a>>)

\* one invocation of Rpc::connect returned k: the event "connect" marks it,
\* with the variant it returned
Invoked(k) ==
  Out(k.res, <<Ev("connect", "", 0, k.res.kind, "", CodecRet(k.res.tag = "Ok"))>> \o k.events)

\* Rpc::connect
Connect(addrOk, c) == Invoked(ConnectSteps(addrOk, c))

\* the transport holds a connection once its connect has returned Ok
TcpUp(c) == c.tcp = "ok"

\* Rpc::is_connected: the transport's answer, false when it is an error
IsConnected(conn, q) == IF q = "ok" THEN conn ELSE FALSE

\* The outcomes of the external calls of Rpc::disconnect.
DiscEnv(cl, snd, rcv, wsr, ftype, tc) ==
  [cl |-> cl, snd |-> snd, rcv |-> rcv, wsr |-> wsr, ftype |-> ftype, tc |-> tc]

DiscEnvs ==
  {DiscEnv(FALSE, "ok", "ok", TRUE, "Binary", TRUE)} \cup
  {DiscEnv(TRUE, s, "ok", TRUE, "Binary", TRUE) : s \in NbErrors} \cup
  {DiscEnv(TRUE, s, r, TRUE, "Binary", TRUE) : s \in {"ok", "short"}, r \in NbErrors} \cup
  {DiscEnv(TRUE, s, "ok", FALSE, "Binary", TRUE) : s \in {"ok", "short"}} \cup
  {DiscEnv(TRUE, s, "ok", TRUE, f, TRUE) : s \in {"ok", "short"}, f \in FrameTypes} \cup
  {DiscEnv(TRUE, s, "ok", TRUE, "CloseCompleted", FALSE) : s \in {"ok", "short"}}

\* as Disconnect, closing the transport whatever frame was read
DisconnectAnyFrame(d) ==
  LET c == Ev("ws_close", "NormalClosure", 0, "", "", CodecRet(d.cl))
      s == Ev("send", "Close", 0, "NormalClosure", "", d.snd)
      r == Ev("receive", "Close", 0, "", "", d.rcv)
      p == Ev("ws_read", d.ftype, 0, "", "", "ok")
      t == Ev("tcp_close", "", 0, "", "", CodecRet(d.tc))
  IN IF ~d.cl THEN Out(Err("WebSocket.Codec"), <<c>>)
     ELSE IF d.snd \in NbErrors THEN Out(EmbeddedErr(d.snd), <<c, s>>)
     ELSE IF d.rcv \in NbErrors THEN Out(EmbeddedErr(d.rcv), <<c, s, r>>)
     ELSE IF ~d.wsr THEN Out(Err("WebSocket.Codec"), <<c, s, r, EvReadFailed>>)
     ELSE IF d.tc THEN Out(OkUnit, <<c, s, r, p, t>>)
     ELSE Out(Err("TcpSocket.CannotClose"), <<c, s, r, p, t>>)

\* Rpc::disconnect
Disconnect(d) ==
  LET c == Ev("ws_close", "NormalClosure", 0, "", "", CodecRet(d.cl))
      s == Ev("send", "Close", 0, "NormalClosure", "", d.snd)
      r == Ev("receive", "Close", 0, "", "", d.rcv)
      p == Ev("ws_read", d.ftype, 0, "", "", "ok")
      t == Ev("tcp_close", "", 0, "", "", CodecRet(d.tc))
  IN IF ~d.cl THEN Out(Err("WebSocket.Codec"), <<c>>)
     ELSE IF d.snd \in NbErrors THEN Out(EmbeddedErr(d.snd), <<c, s>>)
     ELSE IF d.rcv \in NbErrors THEN Out(EmbeddedErr(d.rcv), <<c, s, r>>)
     ELSE IF ~d.wsr THEN Out(Err("WebSocket.Codec"), <<c, s, r, EvReadFailed>>)
     ELSE IF d.ftype = "CloseCompleted"
          THEN IF d.tc THEN Out(OkUnit, <<c, s, r, p, t>>)
               ELSE Out(Err("TcpSocket.CannotClose"), <<c, s, r, p, t>>)
          ELSE Out(Err("ErrorClosing"), <<c, s, r, p>>)

\* --------------------------------------------------------------- Provider

\* Option::None of a byte array; Some(a) is the array a itself
None == <<>>

\* The outcomes of the external calls of one Provider call that checks the
\* connection first: q, the transport's answer to is_connected ("err": an
\* error); c, those of the connect it may run; e, those of its request.
CallEnv(q, c, e) == [q |-> q, c |-> c, e |-> e]

ConnOk == ConnEnv("ok", TRUE, "ok", "ok", TRUE)
DefReqEnv == ReqEnv(FALSE, "ok", "ok", TRUE, DefFrame, TRUE, "ok")

\* Every outcome: the transport's answer is an error only where that changes
\* what the call does, and the calls that are not reached are left at a default.
CallEnvs(conn, aOk, ids, strs) ==
  {CallEnv("ok", ConnOk, e) : e \in IF conn \/ aOk THEN ReqEnvs(ids, strs) ELSE {DefReqEnv}} \cup
  {CallEnv("ok", c, DefReqEnv) : c \in IF conn THEN {} ELSE ConnEnvs \ {ConnOk}} \cup
  {CallEnv("err", c, DefReqEnv) : c \in IF conn THEN ConnEnvs \ {ConnOk} ELSE {}} \cup
  {CallEnv("err", ConnOk, e) : e \in IF conn /\ aOk THEN ReqEnvs(ids, strs) ELSE {}}

\* what a Provider call leaves: its result, the external calls it made, the
\* session's cmd_id and whether the transport holds a connection
POut(res, events, cmd, up) == [res |-> res, events |-> events, cmd |-> cmd, up |-> up]

EvIsConnected(b) == Ev("is_connected", IF b THEN "true" ELSE "false", 0, "", "", "ok")

\* a Provider call's outcome from that of its rpc_method, o, after the
\* external calls pre
Called(pre, o, up) == POut(o.res, pre \o o.events, o.cmd, up)

\* as Reconnected, with the result of connect dropped as Provider::new drops it
ReconnectedAnyway(k, pre, up, id, method, arg, e) ==
  Called(pre \o k.events, RpcMethod(id, method, arg, e), up)

\* the call after its connect returned k: `?` returns its error
Reconnected(k, pre, up, id, method, arg, e) ==
  IF k.res.tag = "Err" THEN POut(k.res, pre \o k.events, id, up)
  ELSE Called(pre \o k.events, RpcMethod(id, method, arg, e), up)

\* if !self.rpc.is_connected() { self.rpc.connect(self.addr)?; }
\* let res = self.rpc.rpc_method(method, params)?;
CheckedCall(conn, aOk, id, method, arg, x) ==
  IF IsConnected(conn, x.q)
  THEN Called(<<EvIsConnected(TRUE)>>, RpcMethod(id, method, arg, x.e), conn)
  ELSE Reconnected(Connect(aOk, x.c), <<EvIsConnected(FALSE)>>,
                   conn \/ (aOk /\ TcpUp(x.c)), id, method, arg, x.e)

\* Provider::system_name
SystemNameCall(conn, aOk, id, x) == CheckedCall(conn, aOk, id, "system_name", "", x)

\* Provider::system_version
SystemVersionCall(conn, aOk, id, x) == CheckedCall(conn, aOk, id, "system_version", "", x)

\* Provider::runtime_version
RuntimeVersionCall(conn, aOk, id, x) ==
  CheckedCall(conn, aOk, id, "state_getRuntimeVersion", "", x)

\* Chain::get_finalized_head
GetFinalizedHeadCall(conn, aOk, id, x) ==
  CheckedCall(conn, aOk, id, "chain_getFinalizedHead", "", x)

\* Chain::get_block_hash, after rpc_method returned p: the text without its
\* prefix must decode to exactly 32 bytes
DecodeBlockHash(p, d) ==
  IF p.res.tag = "Err" THEN p
  ELSE IF d.ok THEN [p EXCEPT !.res = OkBytes(d.bytes)]
  ELSE [p EXCEPT !.res = Err("CannotParse")]

BlockHashOf(p) ==
  DecodeBlockHash(p, HexDecodeToSlice(StripPrefix0x(ResText(p.res)), HashLen))

\* Chain::get_block_hash(number): arg is "[0]" for Some([0]) and "" for None
GetBlockHashCall(conn, aOk, id, arg, x) ==
  BlockHashOf(CheckedCall(conn, aOk, id, "chain_getBlockHash", arg, x))

\* a get_genesis_block_hash that leaves the cache gen
GOut(res, events, cmd, up, gen) ==
  [res |-> res, events |-> events, cmd |-> cmd, up |-> up, gen |-> gen]

\* self.genesis.replace(genesis); self.genesis.ok_or(CannotParse)
ReplaceGenesis(p, g) ==
  GOut(IF g # None THEN OkBytes(g) ELSE Err("CannotParse"), p.events, p.cmd, p.up, g)

\* get_genesis_block_hash with an empty cache, after get_block_hash returned p
FetchedGenesis(gen, p) ==
  IF p.res.tag = "Err" THEN GOut(p.res, p.events, p.cmd, p.up, gen)
  ELSE ReplaceGenesis(p, p.res.bytes)

\* as GetGenesisBlockHashCall, fetching the hash whatever the cache holds
GetGenesisBlockHashCallRefetch(gen, conn, aOk, id, x) ==
  FetchedGenesis(gen, GetBlockHashCall(conn, aOk, id, "[0]", x))

\* Chain::get_genesis_block_hash with the cache gen
GetGenesisBlockHashCall(gen, conn, aOk, id, x) ==
  IF gen # None THEN GOut(OkBytes(gen), <<>>, id, conn, gen)
  ELSE FetchedGenesis(gen, GetBlockHashCall(conn, aOk, id, "[0]", x))

\* ---------------------------------------------------------------- Account

\* the account's public key (Signer::get_public), fixed for its lifetime
PublicKey == [i \in 1..HashLen |-> (11 * i) % 256]

\* twox128("System") ++ twox128("Account")
HashedRequest ==
  <<38, 170, 57, 78, 234, 86, 48, 224, 124, 72, 174, 12, 149, 88, 206, 247,
    185, 157, 136, 14, 198, 129, 121, 156, 12, 243, 14, 136, 134, 55, 29, 169>>

\* Blake2b with a 16-byte digest is external; any fixed function of the key
\* stands for it.
Blake2b128(k) == [i \in 1..16 |-> (k[i] + 3 * k[i + 16] + 1) % 256]

\* the ASCII code of the lower-case hex digit of d
HexDigit(d) == IF d < 10 THEN 48 + d ELSE 87 + d

\* hex::encode_to_slice: two ASCII digits per byte
HexEncode(bytes) ==
  [i \in 1..(2 * Len(bytes)) |->
     IF i % 2 = 1 THEN HexDigit(bytes[(i + 1) \div 2] \div 16)
     ELSE HexDigit(bytes[i \div 2] % 16)]

\* Account::get_info, the buffer `params` as sent: "0x" and the hex of the
\* storage key, REQ_SIZE_STR_ENCODED bytes
Params == <<48, 120>> \o HexEncode(HashedRequest \o Blake2b128(PublicKey) \o PublicKey)

\* what get_info leaves: info is the cache after the call, panic says the call
\* ended in a panic (a slice index out of range)
AOut(res, events, cmd, inf, panic) ==
  [res |-> res, events |-> events, cmd |-> cmd, info |-> inf, panic |-> panic]

\* as Unpacked, with the cache returned when the text does not decode
UnpackedOrCache(inf, o, n, d) ==
  IF n > Len(Params) THEN AOut(Err("panic"), o.events, o.cmd, inf, TRUE)
  ELSE IF d.ok
       THEN AOut(OkBytes(SubSeq(d.bytes \o SubSeq(Params, n + 1, Len(Params)), 1, AccountInfoLen)),
                 o.events, o.cmd,
                 SubSeq(d.bytes \o SubSeq(Params, n + 1, Len(Params)), 1, AccountInfoLen),
                 FALSE)
       ELSE IF inf # None THEN AOut(OkBytes(inf), o.events, o.cmd, inf, FALSE)
       ELSE AOut(Err("CannotConvert"), o.events, o.cmd, inf, FALSE)

\* Account::get_info, after hex::decode_to_slice(hex_data,
\* &mut params[..hex_data.len()/2]) returned d: the AccountInfo is the first 72
\* bytes of params, the decoded bytes followed by what params held
Unpacked(inf, o, n, d) ==
  IF n > Len(Params) THEN AOut(Err("panic"), o.events, o.cmd, inf, TRUE)
  ELSE IF d.ok
       THEN AOut(OkBytes(SubSeq(d.bytes \o SubSeq(Params, n + 1, Len(Params)), 1, AccountInfoLen)),
                 o.events, o.cmd,
                 SubSeq(d.bytes \o SubSeq(Params, n + 1, Len(Params)), 1, AccountInfoLen),
                 FALSE)
       ELSE AOut(Err("CannotConvert"), o.events, o.cmd, inf, FALSE)

\* Account::get_info, after rpc_method returned Ok with the text hex (its
\* prefix stripped)
Parsed(inf, o, hex) ==
  Unpacked(inf, o, Len(hex) \div 2, HexDecodeToSlice(hex, Len(hex) \div 2))

\* as Fetched, with no use of the cache
FetchedNoCache(inf, o) ==
  IF o.res.tag = "Ok" THEN Parsed(inf, o, StripPrefix0x(ResText(o.res)))
  ELSE AOut(Err("CannotFetchAccountInfo"), o.events, o.cmd, inf, FALSE)

\* Account::get_info, after rpc_method returned o: the cache is used only when
\* the call failed
Fetched(inf, o) ==
  IF o.res.tag = "Ok" THEN Parsed(inf, o, StripPrefix0x(ResText(o.res)))
  ELSE IF inf # None THEN AOut(OkBytes(inf), o.events, o.cmd, inf, FALSE)
  ELSE AOut(Err("CannotFetchAccountInfo"), o.events, o.cmd, inf, FALSE)

\* Account::get_info with the cache inf: the request is sent by rpc_method
\* directly.
GetInfoCall(inf, id, e) == Fetched(inf, RpcMethod(id, "state_getStorage", "[key]", e))

\* `let info = self.get_info(provider)?` and the field of info returned: the
\* bytes from..to of the AccountInfo, which is repr(C)
FieldOf(a, from, to) ==
  IF a.res.tag = "Ok" THEN [a EXCEPT !.res = OkBytes(SubSeq(a.res.bytes, from, to))]
  ELSE a

\* Account::get_balance: info.data.free, the u128 behind nonce and ref_count
GetBalanceCall(inf, id, e) == FieldOf(GetInfoCall(inf, id, e), 9, 24)

\* Account::get_nonce: info.nonce, the first u32
GetNonceCall(inf, id, e) == FieldOf(GetInfoCall(inf, id, e), 1, 4)

\* ------------------------------------------------------------ ScaleCompact

\* An unsigned integer is the sequence of its little-endian bytes: 4 for a
\* u32, 16 for a u128 (to_le_bytes).
U32Len == 4
U128Len == 16

\* the little-endian bytes of a number below 2^31
LE(k, len) == [i \in 1..len |-> IF i > 4 THEN 0 ELSE (k \div (256 ^ (i - 1))) % 256]

\* a < b, for two integers of the same width
Less(a, b) ==
  \E i \in DOMAIN a : a[i] < b[i] /\ \A j \in DOMAIN a : j > i => a[j] = b[j]

\* n << 2: the bits shifted out of the width are lost
Shl2(n) ==
  [i \in DOMAIN n |-> ((4 * n[i]) % 256) + (IF i = 1 THEN 0 ELSE n[i - 1] \div 64)]

\* (n << 2) + mode, mode < 4: the two low bits of n << 2 are zero
WithMode(n, mode) == [Shl2(n) EXCEPT ![1] = @ + mode]

\* `as u128` of a u32 and `as u32` of a u128
AsU128(n) == n \o [i \in 1..(U128Len - Len(n)) |-> 0]
AsU32(n) == SubSeq(n, 1, U32Len)

\* what an encoder leaves: the bytes it wrote at the start of its buffer and
\* the length it returned
Written(out, len) == [out |-> out, len |-> len]

\* ba.iter().rev().take_while(|&&x| x == 0).count()
SuffixSize(ba) ==
  IF \A i \in DOMAIN ba : ba[i] = 0 THEN Len(ba)
  ELSE Len(ba) - (CHOOSE i \in DOMAIN ba : ba[i] # 0 /\ \A j \in DOMAIN ba : j > i => ba[j] = 0)

\* as BigInteger, with the count of bytes itself in the prefix
BigIntegerPlainSize(n) ==
  Written(<<(3 + 4 * (Len(n) - SuffixSize(n))) % 256>> \o SubSeq(n, 1, Len(n) - SuffixSize(n)),
          Len(n) - SuffixSize(n) + 1)

\* impl Compact for u128, the branch of the integers that go into no u32:
\* payload[0] = 3 + ((compact_size - 4) << 2) as u8, then the compact_size
\* low bytes
BigInteger(n) ==
  Written(<<3 + ((4 * (Len(n) - SuffixSize(n) - 4)) % 256)>> \o SubSeq(n, 1, Len(n) - SuffixSize(n)),
          Len(n) - SuffixSize(n) + 1)

RECURSIVE ScaleCompactU128(_)

\* as ScaleCompactU32, with the two-byte form taken for everything below 2^16
ScaleCompactU32Wide(n) ==
  IF Less(n, LE(64, U32Len))
  THEN Written(SubSeq(WithMode(n, 0), 1, 1), 1)
  ELSE IF Less(n, LE(2 ^ 16, U32Len))
  THEN Written(SubSeq(WithMode(n, 1), 1, 2), 2)
  ELSE IF Less(n, LE(2 ^ 30 - 1, U32Len))
  THEN Written(WithMode(n, 2), U32Len)
  ELSE ScaleCompactU128(AsU128(n))

\* impl Compact for u32
ScaleCompactU32(n) ==
  IF Less(n, LE(64, U32Len))
  THEN Written(SubSeq(WithMode(n, 0), 1, 1), 1)
  ELSE IF Less(n, LE(2 ^ 14 - 1, U32Len))
  THEN Written(SubSeq(WithMode(n, 1), 1, 2), 2)
  ELSE IF Less(n, LE(2 ^ 30 - 1, U32Len))
  THEN Written(WithMode(n, 2), U32Len)
  ELSE ScaleCompactU128(AsU128(n))

\* as ScaleCompactU128, handing to the u32 encoder only what fits one byte
ScaleCompactU128Own(n) ==
  IF Less(n, LE(64, U128Len)) THEN ScaleCompactU32(AsU32(n))
  ELSE BigInteger(n)

\* impl Compact for u128
ScaleCompactU128(n) ==
  IF Less(n, LE(2 ^ 30 - 1, U128Len)) THEN ScaleCompactU32(AsU32(n))
  ELSE BigInteger(n)

\* ------------------------------------------------------------------ Calls

\* ExtrinsicTransferCall::new: the balances module, its call 0
ModuleIdx == 5
CallIdx == 0
IsAddress == 255

ExtrinsicTransferCall(dest_account, amount) ==
  [module_idx |-> ModuleIdx, call_idx |-> CallIdx, is_address |-> IsAddress,
   dest_account |-> dest_account, amount |-> amount]

\* Call::encode of the transfer, after scale_compact wrote a behind the
\* destination
EncodeWith(c, a) ==
  Written(<<c.module_idx, c.call_idx>> \o c.dest_account \o a.out,
          2 + Len(c.dest_account) + a.len)

\* impl Call for ExtrinsicTransferCall
Encode(c) == EncodeWith(c, ScaleCompactU128(c.amount))

\* a Call other than the transfer: encode writes the bytes raw
RawCall(raw) == [raw |-> raw]

\* Call::encode of the call c, a transfer or another Call
CallEncode(c) ==
  IF "raw" \in DOMAIN c THEN Written(c.raw, Len(c.raw)) ELSE Encode(c)

\* -------------------------------------------------------------- Extrinsic

\* the version byte of a signed extrinsic, the tag of the signature scheme,
\* the size of a signature and of the buffer signed_tx writes to
SignedVersion == 132
SchemeTag == 1
SignatureLen == 64
MAXIMUM_PAYLOAD_SIZE_BYTES == 252

\* the size of temp_packed_call, where signed_tx keeps the call
TempPackedCallLen == 64

\* ExtrinsicPayload::new, with the genesis hash g and the block hash h the
\* chain returned
ExtrinsicPayload(call, nonce, g, h) ==
  [method |-> call, era |-> 0, nonce |-> nonce, tip |-> LE(0, U128Len),
   spec_version |-> LE(1, U32Len), transaction_version |-> LE(1, U32Len),
   genesis |-> g, block_hash |-> h]

\* what signature_payload leaves: the bytes it wrote, the size of the call at
\* their start and their count
Payload(out, call_size, size) == [out |-> out, call_size |-> call_size, size |-> size]

\* as SignaturePayloadOf, with the fetched block hash as the checkpoint
SignaturePayloadOfHead(p, call, nonce, tip) ==
  Payload(call.out \o <<p.era>> \o nonce.out \o tip.out \o p.spec_version
            \o p.transaction_version \o p.genesis \o p.block_hash,
          call.len,
          call.len + 1 + nonce.len + tip.len + Len(p.spec_version)
            + Len(p.transaction_version) + Len(p.genesis) + Len(p.block_hash))

\* ExtrinsicPayload::signature_payload, after its three encoders wrote call,
\* nonce and tip: the era is Immortal, the checkpoint is the genesis hash
SignaturePayloadOf(p, call, nonce, tip) ==
  Payload(call.out \o <<p.era>> \o nonce.out \o tip.out \o p.spec_version
            \o p.transaction_version \o p.genesis \o p.genesis,
          call.len,
          call.len + 1 + nonce.len + tip.len + Len(p.spec_version)
            + Len(p.transaction_version) + Len(p.genesis) + Len(p.genesis))

\* ExtrinsicPayload::signature_payload
SignaturePayload(p) ==
  SignaturePayloadOf(p, CallEncode(p.method), ScaleCompactU128(AsU128(p.nonce)),
                     ScaleCompactU128(LE(0, U128Len)))

\* what signed_tx leaves: the bytes it gave the signer, the bytes it wrote and
\* the length it returned
Signed(signed, out, idx) ==
  [signed |-> signed, out |-> out,
   len |-> IF idx < MAXIMUM_PAYLOAD_SIZE_BYTES THEN idx ELSE 0]

\* as SignedTxOf, with the call read from the buffer after the header was
\* written over it
SignedTxOfNoCopy(p, public, sig, sp, nonce, tip) ==
  Signed(SubSeq(sp.out, 1, sp.size),
         <<SignedVersion>> \o public \o <<SchemeTag>> \o sig \o <<p.era>> \o nonce.out
           \o tip.out \o SubSeq(<<SignedVersion>> \o public \o <<SchemeTag>> \o sig, 1, sp.call_size),
         1 + Len(public) + 1 + Len(sig) + 1 + nonce.len + tip.len + sp.call_size)

\* as SignedTxOf, with the extrinsic written behind the signing payload and
\* not over it
SignedTxOfBehind(p, public, sig, sp, nonce, tip) ==
  Signed(SubSeq(sp.out, 1, sp.size),
         SubSeq(sp.out, 1, sp.size) \o <<SignedVersion>> \o public \o <<SchemeTag>> \o sig
           \o <<p.era>> \o nonce.out \o tip.out \o SubSeq(sp.out, 1, sp.call_size),
         sp.size + 1 + Len(public) + 1 + Len(sig) + 1 + nonce.len + tip.len + sp.call_size)

\* ExtrinsicPayload::signed_tx, after signature_payload wrote sp, the signer
\* returned sig and the encoders wrote nonce and tip: the call is the copy
\* taken of the start of sp
SignedTxOf(p, public, sig, sp, nonce, tip) ==
  Signed(SubSeq(sp.out, 1, sp.size),
         <<SignedVersion>> \o public \o <<SchemeTag>> \o sig \o <<p.era>> \o nonce.out
           \o tip.out \o SubSeq(sp.out, 1, sp.call_size),
         1 + Len(public) + 1 + Len(sig) + 1 + nonce.len + tip.len + sp.call_size)

\* ExtrinsicPayload::signed_tx for the account with the key public, whose
\* signer returns sig
SignedTx(p, public, sig) ==
  SignedTxOf(p, public, sig, SignaturePayload(p), ScaleCompactU32(p.nonce),
             ScaleCompactU128(p.tip))

\* signed_tx panics on a slice index out of range: the signing payload or the
\* extrinsic t does not end inside the buffer, or the call is longer than
\* temp_packed_call
SignedTxPanics(sp, t) ==
  \/ sp.size > MAXIMUM_PAYLOAD_SIZE_BYTES
  \/ sp.call_size > TempPackedCallLen
  \/ Len(t.out) > MAXIMUM_PAYLOAD_SIZE_BYTES

\* ------------------------------------------------------- submit_extrinsic

\* the sizes of the header and of the whole of param_buf
MAXIMUM_HEADER_SIZE_BYTES == 8
MAXIMUM_PARAM_SIZE_BYTES == 512

\* the ASCII codes of "0x"
Prefix0x == <<48, 120>>

Zeros(n) == [i \in 1..n |-> 0]

\* buf after bytes were written from its index at on, indices counted from 0
WriteAt(buf, at, bytes) ==
  [i \in 1..Len(buf) |-> IF i > at /\ i <= at + Len(bytes) THEN bytes[i - at] ELSE buf[i]]

\* what signed_tx leaves in its buffer: the extrinsic, written over the bytes
\* that were signed
SignedTxBuffer(t) ==
  WriteAt(WriteAt(Zeros(MAXIMUM_PAYLOAD_SIZE_BYTES), 0, t.signed), 0, t.out)

\* param_buf after signed_tx: "0x", six bytes 0, the buffer of signed_tx, 0s
ParamBuf(t) ==
  WriteAt(WriteAt(Zeros(MAXIMUM_PARAM_SIZE_BYTES), 0, Prefix0x),
          MAXIMUM_HEADER_SIZE_BYTES, SignedTxBuffer(t))

\* as WithHeader, with no size written
WithHeaderUnwritten(buf, h) == buf

\* the match on size_header_length: the size h is written, as four hex digits
\* at the end of the header, only when its compact form has two bytes
WithHeader(buf, h) ==
  IF h.len = 2
  THEN WriteAt(buf, MAXIMUM_HEADER_SIZE_BYTES - 4, HexEncode(SubSeq(h.out, 1, 2)))
  ELSE buf

\* hex::encode_to_slice of the 252 bytes of the payload, from where they start
WithPayloadHex(buf) ==
  WriteAt(buf, MAXIMUM_HEADER_SIZE_BYTES,
          HexEncode(SubSeq(buf, MAXIMUM_HEADER_SIZE_BYTES + 1,
                           MAXIMUM_HEADER_SIZE_BYTES + MAXIMUM_PAYLOAD_SIZE_BYTES)))

\* as StartIdx, for a size of one byte whatever h is
StartIdxOneByte(h) == MAXIMUM_HEADER_SIZE_BYTES - 2 - 2

\* start_idx, where the "0x" of the parameter is written
StartIdx(h) == MAXIMUM_HEADER_SIZE_BYTES - h.len * 2 - 2

\* sig_payload_str: param_buf[start_idx..8 + payload_size * 2]
ParamOf(buf, h, payload_size) ==
  SubSeq(WriteAt(buf, StartIdx(h), Prefix0x), StartIdx(h) + 1,
         MAXIMUM_HEADER_SIZE_BYTES + payload_size * 2)

\* the parameter of author_submitExtrinsic for the extrinsic t, whose size in
\* compact form is h
ParamWith(t, h) == ParamOf(WithPayloadHex(WithHeader(ParamBuf(t), h)), h, t.len)

SubmitParam(t) == ParamWith(t, ScaleCompactU32(LE(t.len, U32Len)))

\* what submit_extrinsic leaves: its result, the external calls it made, the
\* session's cmd_id, whether the transport holds a connection, the two caches,
\* whether it ended in a panic, and the call of signed_tx it made
SOut(res, events, cmd, up, gen, inf, panic, tx) ==
  [res |-> res, events |-> events, cmd |-> cmd, up |-> up, gen |-> gen,
   info |-> inf, panic |-> panic, tx |-> tx]

\* no call of signed_tx
NoTx == [fn |-> "none", arg |-> <<>>, out |-> <<>>, len |-> 0, signed |-> <<>>]

\* the call of signed_tx that ended in a panic for the extrinsic p
TxPanicked(p, sig) ==
  [fn |-> "panic", arg |-> [payload |-> p, public |-> PublicKey, sig |-> sig],
   out |-> <<>>, len |-> 0, signed |-> <<>>]

\* the call of signed_tx that returned t for the extrinsic p
TxOf(p, sig, t) ==
  [fn |-> "signed_tx", arg |-> [payload |-> p, public |-> PublicKey, sig |-> sig],
   out |-> t.out, len |-> t.len, signed |-> t.signed]

\* as NonceOr0, with the nonce 0 whatever get_nonce returned
NonceAlways0(n) == LE(0, U32Len)

\* if let Ok(n) = author.get_nonce(self) { nonce = n } else { nonce = 0 }: n
\* is what get_info returned, the nonce is the first field of its AccountInfo
NonceOr0(n) ==
  IF n.res.tag = "Ok" THEN SubSeq(n.res.bytes, 1, U32Len) ELSE LE(0, U32Len)

\* How a failed ExtrinsicPayload::new ends: submit_extrinsic applies `?` to
\* what it returns, and it ends in expect(..) on the error of the chain.
NewFailures == {"error", "panic"}

\* ExtrinsicPayload::new after the Chain call c returned an error; s is the
\* submission so far
NewFailed(s, c, f) ==
  [s EXCEPT !.res = IF f = "panic" THEN Err("panic") ELSE c.res,
            !.events = @ \o c.events, !.cmd = c.cmd, !.up = c.up,
            !.panic = (f = "panic")]

\* the submission s after rpc_method returned o for author_submitExtrinsic
Sent(s, tx, o) ==
  [s EXCEPT !.res = o.res, !.events = @ \o o.events, !.cmd = o.cmd, !.tx = tx]

\* submit_extrinsic from signed_tx on: t is what signed_tx leaves for the
\* payload p and the signature sig
Submitted(s, p, sig, t, e) ==
  IF SignedTxPanics(SignaturePayload(p), t)
  THEN [s EXCEPT !.res = Err("panic"), !.panic = TRUE, !.tx = TxPanicked(p, sig)]
  ELSE IF t.len = 0
  THEN [s EXCEPT !.res = Err("InvalidSize"), !.tx = TxOf(p, sig, t)]
  ELSE Sent(s, TxOf(p, sig, t),
            RpcMethod(s.cmd, "author_submitExtrinsic", SubmitParam(t), e))

\* the submission s once the payload p is built
Built(s, p, sig, e) == Submitted(s, p, sig, SignedTx(p, PublicKey, sig), e)

\* ExtrinsicPayload::new after get_block_hash(None) returned h
WithHead(s, nonce, g, h, call, sig, e, f) ==
  IF h.res.tag = "Err" THEN NewFailed(s, h, f)
  ELSE Built([s EXCEPT !.events = @ \o h.events, !.cmd = h.cmd, !.up = h.up],
             ExtrinsicPayload(call, nonce, g, h.res.bytes), sig, e)

\* as WithGenesis, with the block hash fetched whatever the genesis fetch gave
WithGenesisUnchecked(s, nonce, g, aOk, call, sig, x3, e, f) ==
  WithHead([s EXCEPT !.events = @ \o g.events, !.cmd = g.cmd, !.up = g.up,
                     !.gen = g.gen],
           nonce, IF g.res.tag = "Ok" THEN g.res.bytes ELSE Zeros(HashLen),
           GetBlockHashCall(g.up, aOk, g.cmd, "", x3), call, sig, e, f)

\* ExtrinsicPayload::new after get_genesis_block_hash returned g
WithGenesis(s, nonce, g, aOk, call, sig, x3, e, f) ==
  IF g.res.tag = "Err" THEN NewFailed([s EXCEPT !.gen = g.gen], g, f)
  ELSE WithHead([s EXCEPT !.events = @ \o g.events, !.cmd = g.cmd, !.up = g.up,
                          !.gen = g.gen],
                nonce, g.res.bytes, GetBlockHashCall(g.up, aOk, g.cmd, "", x3),
                call, sig, e, f)

\* submit_extrinsic after get_nonce returned n
WithNonce(n, gen, conn, aOk, call, sig, x2, x3, e, f) ==
  IF n.panic THEN SOut(n.res, n.events, n.cmd, conn, gen, n.info, TRUE, NoTx)
  ELSE WithGenesis(SOut(n.res, n.events, n.cmd, conn, gen, n.info, FALSE, NoTx),
                   NonceOr0(n), GetGenesisBlockHashCall(gen, conn, aOk, n.cmd, x2),
                   aOk, call, sig, x3, e, f)

\* Provider::submit_extrinsic(author, call): e1, x2, x3 and e are the outcomes
\* of the external calls of its four requests, sig is what the signer
\* returns, f how a failed ExtrinsicPayload::new ends
SubmitExtrinsicCall(inf, gen, conn, aOk, id, call, sig, e1, x2, x3, e, f) ==
  WithNonce(GetInfoCall(inf, id, e1), gen, conn, aOk, call, sig, x2, x3, e, f)

\* Provider::balance_transfer(author, dest_account, amount)
BalanceTransferCall(inf, gen, conn, aOk, id, dest, amount, sig, e1, x2, x3, e, f) ==
  SubmitExtrinsicCall(inf, gen, conn, aOk, id, ExtrinsicTransferCall(dest, amount),
                      sig, e1, x2, x3, e, f)

\* ------------------------------------------------------------------ state

VARIABLES
  phase,      \* "none" before Provider::new, then "ready", "failed" or "panicked"
  addrOk,     \* Provider.addr parses as an IPv4 address and port
  connected,  \* what the transport answers to is_connected
  cmd_id,     \* Rpc.cmd_id
  genesis,    \* Provider.genesis
  info,       \* Account.info
  public,     \* Account.public
  reqIds,     \* the ids of the requests framed on this session, oldest first
  last,       \* the last operation: its name, its result, the external calls it
              \* made, and the state it started from
  codec       \* the last call of an encoder: its name, its arguments, the bytes it
              \* wrote and the length it returned

vars == <<phase, addrOk, connected, cmd_id, genesis, info, public, reqIds, last, codec>>

\* the ids of the requests among the events
IsRequest(v) == v.ev = "ws_write" /\ v.kind = "Text"

IdsOf(w) == [i \in 1..Len(w) |-> w[i].id]

RequestIds(events) == IdsOf(SelectSeq(events, IsRequest))

Idle ==
  [op |-> "idle", res |-> NoRes, events |-> <<>>, conn0 |-> FALSE,
   cmd0 |-> 0, genesis0 |-> None, info0 |-> None]

\* one call of an encoder: fn names it, arg holds its arguments, out the bytes
\* it wrote, len the length it returned, signed the bytes it gave the signer
Codec(fn, arg, w, signed) ==
  [fn |-> fn, arg |-> arg, out |-> w.out, len |-> w.len, signed |-> signed]

NoCodec == Codec("none", <<>>, Written(<<>>, 0), <<>>)

\* the session exists and the application holds no result of an earlier call
Ready == phase = "ready" /\ last = Idle /\ cmd_id <= MaxCalls

Last(op, res, events) ==
  [op |-> op, res |-> res, events |-> events, conn0 |-> connected,
   cmd0 |-> cmd_id, genesis0 |-> genesis, info0 |-> info]

Init ==
  /\ phase = "none"
  /\ addrOk = FALSE
  /\ connected = FALSE
  /\ cmd_id = 0
  /\ genesis = None
  /\ info = None
  /\ public = PublicKey
  /\ reqIds = <<>>
  /\ last = Idle
  /\ codec = NoCodec

\* Rpc::new: the cmd_id of a new session
NewCmdId == 1

\* Provider::new: Rpc::new fails when the transport cannot create a socket;
\* the result of the first connect is dropped.
ProviderNew ==
  /\ phase = "none" /\ last = Idle
  /\ \E sock \in BOOLEAN, a \in BOOLEAN, c \in ConnEnvs :
       IF sock
          THEN /\ phase' = "ready"
               /\ addrOk' = a
               /\ connected' = (a /\ TcpUp(c))
               /\ cmd_id' = NewCmdId
               /\ last' = Last("new", OkUnit,
                               <<Ev("socket", "", 0, "", "", "ok")>> \o Connect(a, c).events)
          ELSE /\ phase' = "failed"
               /\ last' = Last("new", Err("TcpSocket.CannotCreate"),
                               <<Ev("socket", "", 0, "", "", "error")>>)
               /\ UNCHANGED <<addrOk, connected, cmd_id>>
  /\ UNCHANGED <<genesis, info, public, reqIds, codec>>

\* the state after a Provider call with outcome p
AfterCall(op, p) ==
  /\ cmd_id' = p.cmd
  /\ connected' = p.up
  /\ reqIds' = reqIds \o RequestIds(p.events)
  /\ last' = Last(op, p.res, p.events)

\* the state after get_genesis_block_hash with outcome p
AfterGenesis(p) ==
  /\ AfterCall("get_genesis_block_hash", p)
  /\ genesis' = p.gen

\* the state after the call op of the Account with outcome p: self.public is
\* read and never written
AfterAccountCall(op, p) ==
  /\ cmd_id' = p.cmd
  /\ reqIds' = reqIds \o RequestIds(p.events)
  /\ last' = Last(op, p.res, p.events)
  /\ info' = p.info
  /\ public' = public
  /\ phase' = IF p.panic THEN "panicked" ELSE phase

\* as AfterGetInfo, with the bytes decoded written over the key as well
AfterGetInfoOverKey(p) ==
  /\ cmd_id' = p.cmd
  /\ reqIds' = reqIds \o RequestIds(p.events)
  /\ last' = Last("get_info", p.res, p.events)
  /\ info' = p.info
  /\ public' = IF p.info # None THEN SubSeq(p.info, 1, HashLen) ELSE public
  /\ phase' = IF p.panic THEN "panicked" ELSE phase

\* the state after Account::get_info with outcome p
AfterGetInfo(p) == AfterAccountCall("get_info", p)

\* the state after Rpc::disconnect with outcome o: the transport is closed
\* when it returned Ok
AfterDisconnect(o) ==
  /\ last' = Last("disconnect", o.res, o.events)
  /\ connected' = IF o.res.tag = "Ok" THEN FALSE ELSE connected

SystemName ==
  /\ Ready
  /\ \E x \in CallEnvs(connected, addrOk, RespIds(cmd_id), NameStrs) :
       AfterCall("system_name", SystemNameCall(connected, addrOk, cmd_id, x))
  /\ UNCHANGED <<phase, addrOk, genesis, info, public, codec>>

SystemVersion ==
  /\ Ready
  /\ \E x \in CallEnvs(connected, addrOk, RespIds(cmd_id), NameStrs) :
       AfterCall("system_version", SystemVersionCall(connected, addrOk, cmd_id, x))
  /\ UNCHANGED <<phase, addrOk, genesis, info, public, codec>>

RuntimeVersion ==
  /\ Ready
  /\ \E x \in CallEnvs(connected, addrOk, RespIds(cmd_id), NameStrs) :
       AfterCall("runtime_version", RuntimeVersionCall(connected, addrOk, cmd_id, x))
  /\ UNCHANGED <<phase, addrOk, genesis, info, public, codec>>

GetFinalizedHead ==
  /\ Ready
  /\ \E x \in CallEnvs(connected, addrOk, RespIds(cmd_id), NameStrs) :
       AfterCall("get_finalized_head", GetFinalizedHeadCall(connected, addrOk, cmd_id, x))
  /\ UNCHANGED <<phase, addrOk, genesis, info, public, codec>>

GetBlockHash ==
  /\ Ready
  /\ \E arg \in {"", "[0]"}, x \in CallEnvs(connected, addrOk, RespIds(cmd_id), HashStrs) :
       AfterCall("get_block_hash", GetBlockHashCall(connected, addrOk, cmd_id, arg, x))
  /\ UNCHANGED <<phase, addrOk, genesis, info, public, codec>>

GetGenesisBlockHash ==
  /\ Ready
  /\ \E x \in CallEnvs(connected, addrOk, RespIds(cmd_id), HashStrs) :
       AfterGenesis(GetGenesisBlockHashCall(genesis, connected, addrOk, cmd_id, x))
  /\ UNCHANGED <<phase, addrOk, info, public, codec>>

GetInfo ==
  /\ Ready
  /\ \E e \in ReqEnvs(RespIds(cmd_id), AcctStrs) :
       AfterGetInfo(GetInfoCall(info, cmd_id, e))
  /\ UNCHANGED <<addrOk, connected, genesis, codec>>

\* Rpc::disconnect on the session
RpcDisconnect ==
  /\ phase = "ready" /\ last = Idle
  /\ \E d \in DiscEnvs :
       AfterDisconnect(Disconnect(d))
  /\ UNCHANGED <<phase, addrOk, cmd_id, genesis, info, public, reqIds, codec>>

\* the transport loses its connection
TransportDown ==
  /\ phase = "ready" /\ last = Idle /\ connected
  /\ connected' = FALSE
  /\ UNCHANGED <<phase, addrOk, cmd_id, genesis, info, public, reqIds, last, codec>>

\* the application has looked at the result of its last call, whose buffers
\* are gone
Return ==
  /\ last # Idle
  /\ last' = Idle
  /\ codec' = NoCodec
  /\ UNCHANGED <<phase, addrOk, connected, cmd_id, genesis, info, public, reqIds>>

Next ==
  \/ ProviderNew
  \/ SystemName
  \/ SystemVersion
  \/ RuntimeVersion
  \/ GetFinalizedHead
  \/ GetBlockHash
  \/ GetGenesisBlockHash
  \/ GetInfo
  \/ RpcDisconnect
  \/ TransportDown
  \/ Return

Spec == Init /\ [][Next]_vars

\* ------------------------------------------------------------ the encoders

\* How far around each boundary of the compact encoding the integers encoded
\* reach.
Window == 3

Around(b) == (IF b > Window THEN b - Window ELSE 0)..(b + Window)

\* the u32 encoded: the integers around 0, 2^6, 2^14 and 2^30, those of the
\* tests, 2^31 and 2^32 - 1
U32Inputs ==
  {LE(k, U32Len) : k \in Around(0) \cup Around(64) \cup Around(2 ^ 14) \cup Around(2 ^ 30)
                         \cup {1, 1536, 16384, 123456}} \cup
  {<<0, 0, 0, 128>>, <<255, 255, 255, 255>>}

\* the u128 encoded: the same integers, 123456789, an integer of each count
\* of bytes from 5 to 16, 2^128 - 1 and the amount 2921503981796281
U128Inputs ==
  {AsU128(n) : n \in U32Inputs} \cup
  {LE(123456789, U128Len)} \cup
  {[i \in 1..U128Len |-> IF i = 1 THEN 255 ELSE IF i = l THEN 1 ELSE 0] : l \in 5..U128Len} \cup
  {[i \in 1..U128Len |-> 255],
   <<185, 123, 11, 167, 23, 97, 10, 0, 0, 0, 0, 0, 0, 0, 0, 0>>}

\* destinations, amounts, nonces, hashes and signatures of the extrinsics built
Dests == {[i \in 1..HashLen |-> (7 * i) % 256], [i \in 1..HashLen |-> 255]}

Amounts ==
  {LE(1, U128Len), LE(2 ^ 14 - 1, U128Len), LE(2 ^ 30, U128Len),
   [i \in 1..U128Len |-> 255],
   <<185, 123, 11, 167, 23, 97, 10, 0, 0, 0, 0, 0, 0, 0, 0, 0>>}

Nonces == {LE(0, U32Len), LE(7, U32Len), LE(64, U32Len), LE(2 ^ 30, U32Len)}

Hashes == {[i \in 1..HashLen |-> 170], [i \in 1..HashLen |-> 17]}

Signatures == {[i \in 1..SignatureLen |-> 1], [i \in 1..SignatureLen |-> (3 * i) % 256]}

CompactU32 ==
  /\ codec = NoCodec
  /\ \E n \in U32Inputs :
       codec' = Codec("u32", [n |-> n], ScaleCompactU32(n), <<>>)
  /\ UNCHANGED <<phase, addrOk, connected, cmd_id, genesis, info, public, reqIds, last>>

CompactU128 ==
  /\ codec = NoCodec
  /\ \E n \in U128Inputs :
       codec' = Codec("u128", [n |-> n], ScaleCompactU128(n), <<>>)
  /\ UNCHANGED <<phase, addrOk, connected, cmd_id, genesis, info, public, reqIds, last>>

\* ExtrinsicTransferCall::new(dest, amount).encode(..)
TransferEncode ==
  /\ codec = NoCodec
  /\ \E d \in Dests, a \in Amounts :
       codec' = Codec("encode", [dest |-> d, amount |-> a],
                      Encode(ExtrinsicTransferCall(d, a)), <<>>)
  /\ UNCHANGED <<phase, addrOk, connected, cmd_id, genesis, info, public, reqIds, last>>

\* the state after signed_tx returned t for the extrinsic p
AfterSignedTx(p, sig, t) ==
  codec' = Codec("signed_tx", [payload |-> p, public |-> PublicKey, sig |-> sig],
                 Written(t.out, t.len), t.signed)

\* ExtrinsicPayload::new(..).signed_tx(account, ..) for a transfer
SignedTxBuild ==
  /\ codec = NoCodec
  /\ \E d \in Dests, a \in Amounts, n \in Nonces, g \in Hashes, h \in Hashes,
        sig \in Signatures :
       AfterSignedTx(ExtrinsicPayload(ExtrinsicTransferCall(d, a), n, g, h), sig,
                     SignedTx(ExtrinsicPayload(ExtrinsicTransferCall(d, a), n, g, h),
                              PublicKey, sig))
  /\ UNCHANGED <<phase, addrOk, connected, cmd_id, genesis, info, public, reqIds, last>>

\* Each behaviour is one call of one encoder on one input.
NextCodec ==
  \/ CompactU32
  \/ CompactU128
  \/ TransferEncode
  \/ SignedTxBuild

SpecCodec == Init /\ [][NextCodec]_vars

\* ------------------------------------------------- the encoders, by steps

\* A call of scale_compact while it runs: the encoder it entered by and its
\* input n, the encoder that executes now and the value v it was handed, and
\* the encoder that handed it over ("caller" when none did).
Running(entry, n, at, v, from) ==
  Codec("scale_compact", [entry |-> entry, n |-> n, at |-> at, v |-> v, from |-> from],
        Written(<<>>, 0), <<>>)

\* the call after it returned w
Returned(c, w) == Codec("returned", c.arg, w, <<>>)

IsRunning == codec.fn = "scale_compact"

\* impl Compact for u32, the else of line 29: the value goes to the u128
\* encoder
U32Delegates(v) == ~Less(v, LE(2 ^ 30 - 1, U32Len))

\* as U128Delegates, with 2^30 - 1 itself handed to the u32 encoder
U128DelegatesUpTo(v) == ~Less(LE(2 ^ 30 - 1, U128Len), v)

\* impl Compact for u128, the condition of line 39: the value goes to the u32
\* encoder
U128Delegates(v) == Less(v, LE(2 ^ 30 - 1, U128Len))

CallU32 ==
  /\ codec = NoCodec
  /\ \E n \in U32Inputs : codec' = Running("u32", n, "u32", n, "caller")
  /\ UNCHANGED <<phase, addrOk, connected, cmd_id, genesis, info, public, reqIds, last>>

CallU128 ==
  /\ codec = NoCodec
  /\ \E n \in U128Inputs : codec' = Running("u128", n, "u128", n, "caller")
  /\ UNCHANGED <<phase, addrOk, connected, cmd_id, genesis, info, public, reqIds, last>>

\* the u32 encoder runs: it calls the u128 encoder on `*self as u128`, or
\* writes one of its three forms and returns
StepU32 ==
  /\ IsRunning /\ codec.arg.at = "u32"
  /\ codec' = IF U32Delegates(codec.arg.v)
              THEN Running(codec.arg.entry, codec.arg.n, "u128", AsU128(codec.arg.v), "u32")
              ELSE Returned(codec, ScaleCompactU32(codec.arg.v))
  /\ UNCHANGED <<phase, addrOk, connected, cmd_id, genesis, info, public, reqIds, last>>

\* the u128 encoder runs: it calls the u32 encoder on `*self as u32`, or
\* writes the big-integer form and returns
StepU128 ==
  /\ IsRunning /\ codec.arg.at = "u128"
  /\ codec' = IF U128Delegates(codec.arg.v)
              THEN Running(codec.arg.entry, codec.arg.n, "u32", AsU32(codec.arg.v), "u128")
              ELSE Returned(codec, BigInteger(codec.arg.v))
  /\ UNCHANGED <<phase, addrOk, connected, cmd_id, genesis, info, public, reqIds, last>>

\* Each behaviour is one call of scale_compact on one input; the encoder that
\* executes takes its next step as long as the call runs.
NextSteps ==
  \/ CallU32
  \/ CallU128
  \/ StepU32
  \/ StepU128

SpecSteps == Init /\ [][NextSteps]_vars /\ WF_vars(StepU32) /\ WF_vars(StepU128)

\* ---------------------------------------------------------- the submissions

\* The outcomes one request of a submission is given: its send fails, its
\* receive times out, the peer answers with an error object, with a string for
\* this request, or with a string for the request before it.
SomeReqEnvs(id, strs) ==
  {ReqEnv(TRUE, "wouldblock", "ok", TRUE, DefFrame, TRUE, "ok"),
   ReqEnv(TRUE, "ok", "wouldblock", TRUE, DefFrame, TRUE, "ok"),
   ReqEnv(TRUE, "ok", "ok", TRUE,
          Frame("Text", TRUE, Body(TRUE, id, "absent", <<>>, "code", -32600), ""),
          TRUE, "ok")} \cup
  {ReqEnv(TRUE, "ok", "ok", TRUE,
          Frame("Text", TRUE, Body(TRUE, i, "string", s, "absent", 0), ""), TRUE, "ok") :
     i \in {id - 1, id}, s \in strs}

\* The outcomes one checked call of a submission is given: those of its
\* request, and a connect that fails when there is no connection.
SomeCallEnvs(conn, aOk, id, strs) ==
  {CallEnv("ok", ConnOk, e) : e \in IF conn \/ aOk THEN SomeReqEnvs(id, strs) ELSE {DefReqEnv}} \cup
  {CallEnv("ok", c, DefReqEnv) :
     c \in IF conn \/ ~aOk THEN {} ELSE {ConnEnv("other", TRUE, "ok", "ok", TRUE)}}

\* the account texts, the hashes and the extrinsic hashes the peer answers a
\* submission with
SubmitAcctStrs == {StrAcctA, StrAcctMax, StrAcctBad}
SubmitHashStrs == {StrHashA, StrHashShort}
SubmitTxStrs == {StrHashB}

\* the outcomes of the genesis fetch, drawn when get_nonce returned n
GenesisEnvs(n) ==
  IF n.panic \/ genesis # None THEN {CallEnv("ok", ConnOk, DefReqEnv)}
  ELSE SomeCallEnvs(connected, addrOk, n.cmd, SubmitHashStrs)

\* the outcomes of the head fetch, drawn when the genesis fetch returned g
HeadEnvs(n, g) ==
  IF n.panic \/ g.res.tag = "Err" THEN {CallEnv("ok", ConnOk, DefReqEnv)}
  ELSE SomeCallEnvs(g.up, addrOk, g.cmd, SubmitHashStrs)

\* the outcomes of the submission's own request, drawn when the head fetch
\* returned h
SubmitEnvs(n, g, h) ==
  IF n.panic \/ g.res.tag = "Err" \/ h.res.tag = "Err" THEN {DefReqEnv}
  ELSE SomeReqEnvs(h.cmd, SubmitTxStrs)

\* how ExtrinsicPayload::new ends, drawn when one of its fetches failed
Failures(n, g, h) ==
  IF ~n.panic /\ (g.res.tag = "Err" \/ h.res.tag = "Err") THEN NewFailures ELSE {"error"}

\* the genesis and head fetches of a submission whose get_nonce returned n
GenesisOf(n, x2) == GetGenesisBlockHashCall(genesis, connected, addrOk, n.cmd, x2)

HeadOf(g, x3) == GetBlockHashCall(g.up, addrOk, g.cmd, "", x3)

\* the state after a submission with outcome s
AfterSubmit(op, s) ==
  /\ cmd_id' = s.cmd
  /\ connected' = s.up
  /\ genesis' = s.gen
  /\ info' = s.info
  /\ reqIds' = reqIds \o RequestIds(s.events)
  /\ last' = Last(op, s.res, s.events)
  /\ phase' = IF s.panic THEN "panicked" ELSE phase
  /\ codec' = s.tx

\* the transfers and the other calls submitted
SubmitAmounts == {LE(1, U128Len), [i \in 1..U128Len |-> 255]}
SubmitDests == {[i \in 1..HashLen |-> (7 * i) % 256]}
SubmitSignatures == {[i \in 1..SignatureLen |-> (3 * i) % 256]}
RawCalls == {RawCall(Zeros(k)) : k \in {TempPackedCallLen, TempPackedCallLen + 1, 160}}

\* one submission of call, each outcome drawn only when the call reaches it
Submission(op, call) ==
  \E sig \in SubmitSignatures, e1 \in SomeReqEnvs(cmd_id, SubmitAcctStrs) :
    \E x2 \in GenesisEnvs(GetInfoCall(info, cmd_id, e1)) :
      \E x3 \in HeadEnvs(GetInfoCall(info, cmd_id, e1),
                         GenesisOf(GetInfoCall(info, cmd_id, e1), x2)) :
        \E e \in SubmitEnvs(GetInfoCall(info, cmd_id, e1),
                            GenesisOf(GetInfoCall(info, cmd_id, e1), x2),
                            HeadOf(GenesisOf(GetInfoCall(info, cmd_id, e1), x2), x3)),
           f \in Failures(GetInfoCall(info, cmd_id, e1),
                          GenesisOf(GetInfoCall(info, cmd_id, e1), x2),
                          HeadOf(GenesisOf(GetInfoCall(info, cmd_id, e1), x2), x3)) :
          AfterSubmit(op, SubmitExtrinsicCall(info, genesis, connected, addrOk, cmd_id,
                                              call, sig, e1, x2, x3, e, f))

\* Provider::balance_transfer
BalanceTransfer ==
  /\ Ready
  /\ \E d \in SubmitDests, a \in SubmitAmounts :
       Submission("balance_transfer", ExtrinsicTransferCall(d, a))
  /\ UNCHANGED <<addrOk, public>>

\* Provider::submit_extrinsic with a Call that is no transfer
SubmitExtrinsic ==
  /\ Ready
  /\ \E c \in RawCalls : Submission("submit_extrinsic", c)
  /\ UNCHANGED <<addrOk, public>>

NextSubmit ==
  \/ ProviderNew
  \/ BalanceTransfer
  \/ SubmitExtrinsic
  \/ Return

SpecSubmit == Init /\ [][NextSubmit]_vars

\* ---------------------------------------------------------- late replies

\* A session whose peer answers every request with the id of the request, on
\* a transport whose receive can time out: the reply to a request whose
\* receive timed out is delivered to the receive of the next call.

\* the calls made on it, and their methods
LateOps == {"system_name", "runtime_version"}

MethodOf(op) == IF op = "system_name" THEN "system_name" ELSE "state_getRuntimeVersion"

\* the receive of the last call timed out after its request was sent
TimedOut ==
  \E i \in DOMAIN last.events :
    /\ last.events[i].ev = "receive" /\ last.events[i].kind = "Text"
    /\ last.events[i].ret = "wouldblock"

\* a call whose peer answers the request of the call
PromptCall ==
  /\ Ready
  /\ \E op \in LateOps, x \in CallEnvs(connected, addrOk, {cmd_id}, NameStrs) :
       AfterCall(op, CheckedCall(connected, addrOk, cmd_id, MethodOf(op), "", x))
  /\ UNCHANGED <<phase, addrOk, genesis, info, public, codec>>

\* the call made after one whose receive timed out: it reads the reply to the
\* request of that call, or the reply to its own
LateCall ==
  /\ phase = "ready" /\ cmd_id <= MaxCalls
  /\ last.op \in LateOps /\ TimedOut
  /\ \E op \in LateOps, x \in CallEnvs(connected, addrOk, {last.cmd0, cmd_id}, NameStrs) :
       AfterCall(op, CheckedCall(connected, addrOk, cmd_id, MethodOf(op), "", x))
  /\ UNCHANGED <<phase, addrOk, genesis, info, public, codec>>

NextLate ==
  \/ ProviderNew
  \/ PromptCall
  \/ LateCall
  \/ Return

SpecLate == Init /\ [][NextLate]_vars

\* ------------------------------------------------------------ the account

GetBalance ==
  /\ Ready
  /\ \E e \in ReqEnvs(RespIds(cmd_id), AcctStrs) :
       AfterAccountCall("get_balance", GetBalanceCall(info, cmd_id, e))
  /\ UNCHANGED <<addrOk, connected, genesis, codec>>

GetNonce ==
  /\ Ready
  /\ \E e \in ReqEnvs(RespIds(cmd_id), AcctStrs) :
       AfterAccountCall("get_nonce", GetNonceCall(info, cmd_id, e))
  /\ UNCHANGED <<addrOk, connected, genesis, codec>>

\* Account::sign_tx(msg, signature): the signer writes the signature of msg,
\* the account's fields are behind `&self`
SignTx ==
  /\ last = Idle
  /\ \E a \in Amounts, sig \in Signatures :
       /\ last' = Last("sign_tx", OkUnit, <<>>)
       /\ codec' = Codec("sign_tx", [msg |-> a], Written(sig, SignatureLen), a)
  /\ public' = public
  /\ UNCHANGED <<phase, addrOk, connected, cmd_id, genesis, info, reqIds>>

NextAccount ==
  \/ ProviderNew
  \/ GetInfo
  \/ GetBalance
  \/ GetNonce
  \/ SignTx
  \/ Return

SpecAccount == Init /\ [][NextAccount]_vars

\* ----------------------------------------------------------------- claims

\* the calls whose result is that of their rpc_method, unchanged
NameOps == {"system_name", "system_version", "runtime_version", "get_finalized_head"}

\* the calls that return the error of their rpc_method unchanged
PassOps == NameOps \cup {"get_block_hash", "get_genesis_block_hash"}

EventIs(i, ev, kind) ==
  i \in DOMAIN last.events /\ last.events[i].ev = ev /\ last.events[i].kind = kind

\* the positions of the calls ev about a frame of kind `kind` in the last call
Positions(ev, kind) == {i \in DOMAIN last.events : EventIs(i, ev, kind)}

\* the last call read, at position i, a Text frame that is a JSON-RPC object
\* and had sent the request id at position j
ReadReply(i, j) ==
  /\ EventIs(i, "ws_read", "Text") /\ last.events[i].arg = ""
  /\ last.events[i].body.wf
  /\ EventIs(j, "send", "Text") /\ j < i

StrictlyIncreasing(s) == \A i \in DOMAIN s : \A j \in DOMAIN s : i < j => s[i] < s[j]

\* C1: the cmd_id of a new session is 1, and the requests framed on one
\* session carry strictly increasing ids, the first of them 1, whether the
\* calls before succeeded or failed.
C1_IdsIncrease ==
  /\ (phase = "ready" /\ reqIds = <<>>) => cmd_id = NewCmdId
  /\ reqIds # <<>> => reqIds[1] = 1
  /\ StrictlyIncreasing(reqIds)
  /\ \A i \in DOMAIN reqIds : reqIds[i] < cmd_id

\* a third request is framed after a call that failed
C1_Witness ==
  /\ Len(reqIds) >= 3
  /\ last.op = "system_name" /\ last.res = Err("ResponseDoesNotMatch")
  /\ last.cmd0 = reqIds[Len(reqIds)]

\* C2 as stated: a JSON-RPC reply whose id differs from the id of the request
\* makes the call return ResponseDoesNotMatch, whatever its `result` is.
C2_AnyResult ==
  last.op \in PassOps =>
    \A i \in DOMAIN last.events : \A j \in DOMAIN last.events :
      (ReadReply(i, j) /\ last.events[i].body.id # last.events[j].id)
        => last.res = Err("ResponseDoesNotMatch")

\* C2: a JSON-RPC reply whose `result` is a string, null or absent and whose
\* id differs from the id of the request makes the call return
\* ResponseDoesNotMatch; a reply whose `result` is an object is returned whole
\* as Ok by rpc_method, whatever its id.
C2_ParsedReply ==
  /\ last.op \in PassOps =>
       \A i \in DOMAIN last.events : \A j \in DOMAIN last.events :
         (/\ ReadReply(i, j)
          /\ last.events[i].body.result \in {"string", "null", "absent"}
          /\ last.events[i].body.id # last.events[j].id)
           => last.res = Err("ResponseDoesNotMatch")
  /\ last.op \in NameOps =>
       \A i \in DOMAIN last.events : \A j \in DOMAIN last.events :
         (ReadReply(i, j) /\ last.events[i].body.result = "object")
           => last.res = OkBody(last.events[i].body)

\* a reply with a string result and the id of a later request
C2_Witness ==
  /\ last.op = "system_version" /\ last.res = Err("ResponseDoesNotMatch")
  /\ \E i \in DOMAIN last.events :
       /\ EventIs(i, "ws_read", "Text")
       /\ last.events[i].body.result = "string"
       /\ last.events[i].body.id = last.cmd0 + 1

\* C3 as stated: rpc_method returns Ok only with the `result` string of the
\* reply, never with the whole text.
C3_OnlyResult ==
  (last.op \in NameOps /\ last.res.tag = "Ok") => last.res.kind = "result"

\* C3: rpc_method returns Ok with the `result` string of a reply that carries
\* the id of the request, or Ok with the whole text when that text is no
\* JSON-RPC reply with a string, null or absent `result`; a reply whose result
\* is null or absent is never Ok.
C3_ResultOrWhole ==
  (last.op \in NameOps /\ last.res.tag = "Ok") =>
    \E i \in DOMAIN last.events : \E j \in DOMAIN last.events :
      /\ EventIs(i, "ws_read", "Text") /\ last.events[i].arg = ""
      /\ EventIs(j, "send", "Text") /\ j < i
      /\ \/ /\ last.res = OkStr(last.events[i].body.rstr)
            /\ last.events[i].body.wf
            /\ last.events[i].body.result = "string"
            /\ last.events[i].body.id = last.events[j].id
         \/ /\ last.res = OkBody(last.events[i].body)
            /\ (~last.events[i].body.wf \/ last.events[i].body.result = "object")

\* runtime_version returns the whole text of a reply whose result is an object
C3_Witness ==
  /\ last.op = "runtime_version" /\ last.res.tag = "Ok" /\ last.res.kind = "body"
  /\ last.res.body.wf /\ last.res.body.result = "object"
  /\ last.res.body.id = last.cmd0

\* C4 as stated: a reply with the id of the request and no string result makes
\* the call return Json(ErrorCode(c)) when it has an error.code c and
\* Json(ErrorParsing) otherwise.
C4_NoStringResult ==
  last.op \in PassOps =>
    \A i \in DOMAIN last.events : \A j \in DOMAIN last.events :
      (/\ ReadReply(i, j)
       /\ last.events[i].body.id = last.events[j].id
       /\ last.events[i].body.result # "string")
        => last.res = IF last.events[i].body.error = "code"
                      THEN ErrCode(last.events[i].body.code)
                      ELSE Err("Json.ErrorParsing")

\* C4: a reply with the id of the request whose result is null or absent makes
\* the call return Json(ErrorCode(c)) when it has an error.code c and
\* Json(ErrorParsing) otherwise.
C4_NullOrAbsentResult ==
  last.op \in PassOps =>
    \A i \in DOMAIN last.events : \A j \in DOMAIN last.events :
      (/\ ReadReply(i, j)
       /\ last.events[i].body.id = last.events[j].id
       /\ last.events[i].body.result \in {"null", "absent"})
        => last.res = IF last.events[i].body.error = "code"
                      THEN ErrCode(last.events[i].body.code)
                      ELSE Err("Json.ErrorParsing")

\* an error reply with a null result and the code -32601
C4_Witness ==
  /\ last.op = "get_finalized_head" /\ last.res = ErrCode(-32601)
  /\ \E i \in DOMAIN last.events :
       /\ EventIs(i, "ws_read", "Text")
       /\ last.events[i].body.result = "null"
       /\ last.events[i].body.id = last.cmd0

\* the last call read a frame of type t at position i
ReadFrame(i, t) == EventIs(i, "ws_read", t) /\ last.events[i].ret = "ok"

\* the types of frame that are neither Text nor a close to reply to
OtherTypes == FrameTypes \ {"Text", "CloseMustReply"}

\* a call that reads a frame of one of the other types returns Unknown and
\* calls nothing after the read
OtherFramesUnknown ==
  \A i \in DOMAIN last.events : \A t \in OtherTypes :
    ReadFrame(i, t) => (last.res = Err("WebSocket.Unknown") /\ i = Len(last.events))

\* C5 as stated: a call that reads a CloseMustReply frame sends exactly one
\* CloseReply frame with the payload of the inbound frame and returns Unknown;
\* a call that reads any other frame that is no Text returns Unknown and sends
\* nothing.
C5_ReplyThenUnknown ==
  last.op \in PassOps =>
    /\ OtherFramesUnknown
    /\ \A i \in DOMAIN last.events :
         ReadFrame(i, "CloseMustReply") =>
           /\ Positions("send", "CloseReply") = {i + 2}
           /\ last.events[i + 2].data = last.events[i].data
           /\ last.res = Err("WebSocket.Unknown")

\* C5: a call that reads a CloseMustReply frame has the codec compose one
\* CloseReply frame with the payload of the inbound frame and, when that
\* succeeds, calls the transport's send once with it; it returns Unknown when
\* the send returns Ok, the codec's error when the composition fails and the
\* transport's error when the send fails, never a result.  A call that reads
\* any other frame that is no Text returns Unknown and sends nothing.
C5_ReplyOnce ==
  last.op \in PassOps =>
    /\ OtherFramesUnknown
    /\ \A i \in DOMAIN last.events :
         ReadFrame(i, "CloseMustReply") =>
           /\ Positions("ws_write", "CloseReply") = {i + 1}
           /\ last.events[i + 1].data = last.events[i].data
           /\ last.res.tag = "Err"
           /\ IF last.events[i + 1].ret = "ok"
              THEN /\ Positions("send", "CloseReply") = {i + 2}
                   /\ Len(last.events) = i + 2
                   /\ last.events[i + 2].data = last.events[i].data
                   /\ last.res = IF last.events[i + 2].ret \in NbErrors
                                 THEN EmbeddedErr(last.events[i + 2].ret)
                                 ELSE Err("WebSocket.Unknown")
              ELSE /\ Positions("send", "CloseReply") = {}
                   /\ Len(last.events) = i + 1
                   /\ last.res = Err("WebSocket.Codec")

\* the peer closes with the payload 1001 and the reply is sent
C5_Witness ==
  /\ last.op = "system_name" /\ last.res = Err("WebSocket.Unknown")
  /\ \E i \in DOMAIN last.events :
       /\ ReadFrame(i, "CloseMustReply") /\ last.events[i].data = "1001"
       /\ EventIs(i + 2, "send", "CloseReply") /\ last.events[i + 2].ret = "ok"
       /\ last.events[i + 2].data = "1001"

\* the steps of Rpc::connect within the last call, oldest first
IsConnectStep(v) == v.ev = "connect" \/ v.kind = "Handshake"

ConnectEvents == SelectSeq(last.events, IsConnectStep)

ConnectOrder ==
  <<"connect", "tcp_connect", "client_connect", "send", "receive", "client_accept">>

\* C6: connect calls the transport's connect, the codec's client_connect, one
\* send, one receive and client_accept in that order, each only after the one
\* before succeeded; a send that returns another count than the handshake's
\* length makes connect return CountNotMatching with no receive and no
\* client_accept; connect returns Ok only when every step succeeded.
C6_ConnectOrder ==
  last.op \in PassOps \cup {"new"} =>
    /\ Len(ConnectEvents) <= Len(ConnectOrder)
    /\ \A i \in DOMAIN ConnectEvents :
         /\ ConnectEvents[i].ev = ConnectOrder[i]
         /\ (1 < i /\ i < Len(ConnectEvents)) => ConnectEvents[i].ret = "ok"
    /\ \A i \in DOMAIN ConnectEvents :
         (ConnectEvents[i].ev = "send" /\ ConnectEvents[i].ret = "short")
           => /\ Len(ConnectEvents) = i
              /\ ConnectEvents[1].data = "TcpSocket.CountNotMatching"
              /\ ConnectEvents[1].ret = "error"
    /\ (ConnectEvents # <<>> /\ ConnectEvents[1].ret = "ok")
         => /\ Len(ConnectEvents) = Len(ConnectOrder)
            /\ \A i \in DOMAIN ConnectEvents : ConnectEvents[i].ret = "ok"

\* the reconnect of a call sends fewer bytes than the handshake has
C6_Witness ==
  /\ last.op = "system_version" /\ last.res = Err("TcpSocket.CountNotMatching")
  /\ Len(ConnectEvents) = 4
  /\ ConnectEvents[4].ev = "send" /\ ConnectEvents[4].ret = "short"

\* C7: disconnect has the codec compose a NormalClosure frame, sends it, reads
\* one frame and closes the transport only if that frame is CloseCompleted; a
\* frame of any other type makes it return ErrorClosing without a close of the
\* transport.
C7_CloseOnlyWhenCompleted ==
  last.op = "disconnect" =>
    /\ EventIs(1, "ws_close", "NormalClosure")
    /\ Len(last.events) >= 2 =>
         (EventIs(2, "send", "Close") /\ last.events[2].data = "NormalClosure")
    /\ Len(last.events) >= 3 => EventIs(3, "receive", "Close")
    /\ Len(last.events) >= 4 => last.events[4].ev = "ws_read"
    /\ \A i \in DOMAIN last.events :
         last.events[i].ev = "tcp_close" => (i = 5 /\ ReadFrame(4, "CloseCompleted"))
    /\ \A t \in FrameTypes \ {"CloseCompleted"} :
         ReadFrame(4, t) => (last.res = Err("ErrorClosing") /\ Len(last.events) = 4)
    /\ ReadFrame(4, "CloseCompleted") => EventIs(5, "tcp_close", "")
    /\ last.res.tag = "Ok" => (EventIs(5, "tcp_close", "") /\ last.events[5].ret = "ok")
    /\ connected # last.conn0 => last.res.tag = "Ok"

\* the peer answers the close with a close of its own
C7_Witness ==
  /\ last.op = "disconnect" /\ last.res = Err("ErrorClosing")
  /\ ReadFrame(4, "CloseMustReply")
  /\ last.conn0 /\ connected

\* C8 as stated: every request is sent after the call has asked is_connected,
\* and on a transport that was connected at the call's entry or that the call
\* connected.
C8_CheckedBeforeRequest ==
  \A i \in Positions("send", "Text") :
    /\ \E j \in 1..(i - 1) : last.events[j].ev = "is_connected"
    /\ last.conn0 \/ \E j \in 1..(i - 1) :
                       EventIs(j, "tcp_connect", "Handshake") /\ last.events[j].ret = "ok"

\* the calls to Rpc::connect and the calls that frame or send a request in the
\* last call
Opens == {i \in DOMAIN last.events : last.events[i].ev = "connect"}

Requests == Positions("ws_write", "Text") \cup Positions("send", "Text")

\* C9: system_name asks is_connected first; when the answer is false it calls
\* connect exactly once, before the request, and when that connect fails it
\* returns its error and frames no request; when the answer is true it does
\* not call connect.
C9_OpenOnceBeforeRequest ==
  last.op = "system_name" =>
    /\ last.events # <<>> /\ last.events[1].ev = "is_connected"
    /\ Cardinality(Positions("is_connected", "true") \cup Positions("is_connected", "false")) = 1
    /\ ~last.conn0 => EventIs(1, "is_connected", "false")
    /\ EventIs(1, "is_connected", "true") => (Opens = {} /\ Requests # {})
    /\ EventIs(1, "is_connected", "false") =>
         /\ Opens = {2}
         /\ \A r \in Requests : r > 2
         /\ last.events[2].ret = "error" =>
              /\ Requests = {}
              /\ last.res.tag = "Err" /\ last.res.kind = last.events[2].data
              /\ cmd_id = last.cmd0
         /\ last.events[2].ret = "ok" => Requests # {}

\* the transport went down after an earlier request, and system_name
\* reconnects and gets its answer
C9_Witness ==
  /\ last.op = "system_name" /\ last.res = OkStr(StrName)
  /\ last.cmd0 >= 2
  /\ ~last.conn0 /\ EventIs(1, "is_connected", "false")
  /\ Opens = {2} /\ Requests # {}

\* what get_genesis_block_hash does with the cache it found
GenesisCacheUsed ==
  last.op = "get_genesis_block_hash" =>
    /\ last.genesis0 # None =>
         /\ last.res = OkBytes(last.genesis0)
         /\ last.events = <<>>
         /\ cmd_id = last.cmd0
    /\ (last.genesis0 = None /\ last.res.tag = "Err") => genesis = None
    /\ (last.genesis0 = None /\ last.res.tag = "Ok") =>
         (genesis = last.res.bytes /\ Len(genesis) = HashLen)

\* C10: a get_genesis_block_hash that fails leaves the cache empty and returns
\* the error; one that succeeds fills it with the hash it returns; with a full
\* cache it returns the cached hash and makes no external call; a full cache
\* never changes.
C10_GenesisWriteOnce ==
  /\ [](GenesisCacheUsed)
  /\ [][genesis # None => genesis' = genesis]_vars

\* a second get_genesis_block_hash, answered from the cache
C10_Witness ==
  /\ last.op = "get_genesis_block_hash"
  /\ last.genesis0 = HexDecodeToSlice(StripPrefix0x(StrHashA), HashLen).bytes
  /\ last.res = OkBytes(last.genesis0)
  /\ last.events = <<>>

\* what the rpc_method of the last call returned for the frame read at i
RpcReturn(i) == ParseResponse(last.cmd0, OkText(last.events[i].body))

\* the last call read, at position i, a text that its rpc_method returned as Ok
RpcGave(i) ==
  /\ EventIs(i, "ws_read", "Text") /\ last.events[i].arg = ""
  /\ RpcReturn(i).tag = "Ok"

\* the rpc_method of the last call returned Ok
RpcOk == \E i \in DOMAIN last.events : RpcGave(i)

\* the text rpc_method returned for the frame read at i, without its prefix
GivenHex(i) == StripPrefix0x(ResText(RpcReturn(i)))

\* the first bytes of b are the bytes the hex digits of h stand for
DecodedPrefix(b, h) ==
  \A k \in 1..Len(b) :
    2 * k <= Len(h) => b[k] = 16 * HexVal(h[2 * k - 1]) + HexVal(h[2 * k])

\* what get_info does with the answer of its request and with the cache
InfoCacheUsed ==
  last.op = "get_info" =>
    /\ (~RpcOk /\ last.info0 # None) => (last.res = OkBytes(last.info0) /\ info = last.info0)
    /\ (~RpcOk /\ last.info0 = None) =>
         (last.res = Err("CannotFetchAccountInfo") /\ info = None)
    /\ (RpcOk /\ last.res.tag = "Ok") =>
         /\ info = last.res.bytes /\ Len(info) = AccountInfoLen
         /\ \A i \in DOMAIN last.events : RpcGave(i) => DecodedPrefix(info, GivenHex(i))
    /\ last.res.tag = "Err" => info = last.info0

\* C11: a get_info whose request fails returns the cached AccountInfo, which
\* is that of the latest get_info that fetched one, and CannotFetchAccountInfo
\* when the cache is empty; a get_info that fetches an AccountInfo returns it
\* and replaces the cache with it; nothing else changes the cache.
C11_CacheOnRpcFailure ==
  /\ [](InfoCacheUsed)
  /\ [][info' # info => (last'.op = "get_info" /\ last'.res = OkBytes(info'))]_vars

\* the receive of a later get_info times out and the cached info is returned
C11_Witness ==
  /\ last.op = "get_info" /\ last.info0 # None
  /\ last.res = OkBytes(last.info0)
  /\ \E i \in DOMAIN last.events :
       EventIs(i, "receive", "Text") /\ last.events[i].ret = "wouldblock"

\* the hex digits h do not decode: an odd count, or a character that is none
Undecodable(h) == Len(h) % 2 = 1 \/ \E k \in DOMAIN h : HexVal(h[k]) < 0

C13_ExactlySeventyTwoBytes ==
  last.op = "get_info" =>
    \A i \in DOMAIN last.events :
      (/\ RpcGave(i) /\ last.events[i].body.wf
       /\ last.events[i].body.result = "string"
       /\ Len(GivenHex(i)) # 2 * AccountInfoLen)
        => (last.res = Err("CannotConvert") /\ info = last.info0)

\* the count of bytes of n up to its highest byte that is not zero
SignificantLen(n) ==
  CHOOSE l \in 0..Len(n) : (l = 0 \/ n[l] # 0) /\ \A j \in DOMAIN n : j > l => n[j] = 0

\* b >> 2
Shr2(b) ==
  [i \in DOMAIN b |-> (b[i] \div 4) + (IF i < Len(b) THEN (b[i + 1] % 4) * 64 ELSE 0)]

\* The SCALE compact decoder: the two low bits of the first byte select the
\* form; value is the integer as a u128 and used the count of bytes read.
CompactDecode(b) ==
  CASE b[1] % 4 = 0 -> [value |-> AsU128(<<b[1] \div 4>>), used |-> 1]
    [] b[1] % 4 = 1 -> [value |-> AsU128(Shr2(SubSeq(b, 1, 2))), used |-> 2]
    [] b[1] % 4 = 2 -> [value |-> AsU128(Shr2(SubSeq(b, 1, 4))), used |-> 4]
    [] OTHER -> [value |-> AsU128(SubSeq(b, 2, (b[1] \div 4) + 5)),
                 used |-> (b[1] \div 4) + 5]

\* the compact form of a u32 below 2^30, by the ranges of the encoding
CompactBelow2Pow30(n) ==
  IF Less(n, LE(64, U32Len)) THEN SubSeq(WithMode(n, 0), 1, 1)
  ELSE IF Less(n, LE(2 ^ 14, U32Len)) THEN SubSeq(WithMode(n, 1), 1, 2)
  ELSE WithMode(n, 2)

\* C14: for a u32 n below 2^30, scale_compact writes one byte (n << 2) | 0 when
\* n < 64, the two bytes of (n << 2) | 1 when 64 <= n < 2^14 and the four bytes
\* of (n << 2) | 2 when 2^14 <= n < 2^30, and returns their count.
C14_CompactByRange ==
  (codec.fn = "u32" /\ Less(codec.arg.n, LE(2 ^ 30, U32Len))) =>
    /\ codec.out = CompactBelow2Pow30(codec.arg.n)
    /\ codec.len = Len(codec.out)

\* C15: for an integer n of either width that is 2^30 or more, scale_compact
\* writes the byte 3 + ((L - 4) << 2) and the L low bytes of n, L the count of
\* bytes of n up to its highest non-zero byte, 4 <= L <= 16, and returns L + 1.
C15_BigInteger ==
  (/\ codec.fn \in {"u32", "u128"}
   /\ ~Less(AsU128(codec.arg.n), LE(2 ^ 30, U128Len))) =>
    /\ SignificantLen(AsU128(codec.arg.n)) \in 4..U128Len
    /\ codec.out = <<3 + 4 * (SignificantLen(AsU128(codec.arg.n)) - 4)>>
                     \o SubSeq(AsU128(codec.arg.n), 1, SignificantLen(AsU128(codec.arg.n)))
    /\ codec.len = SignificantLen(AsU128(codec.arg.n)) + 1

\* 2147483648 as a u128 is written as 3, 0, 0, 0, 128
C15_Witness ==
  /\ codec.fn = "u128" /\ codec.arg.n = AsU128(<<0, 0, 0, 128>>)
  /\ codec.out = <<3, 0, 0, 0, 128>> /\ codec.len = 5

\* C16: for a u128 n below 2^30, the u128 encoder writes the bytes and returns
\* the length that the u32 encoder writes and returns for n as u32.
C16_SameAsU32 ==
  (codec.fn = "u128" /\ Less(codec.arg.n, LE(2 ^ 30, U128Len))) =>
    /\ codec.out = ScaleCompactU32(AsU32(codec.arg.n)).out
    /\ codec.len = ScaleCompactU32(AsU32(codec.arg.n)).len

\* 2^30 - 1 as a u128, which neither encoder takes for a four-byte form
C16_Witness ==
  /\ codec.fn = "u128" /\ codec.arg.n = LE(2 ^ 30 - 1, U128Len)
  /\ codec.len = 5

\* C17: for a u32 n, the decoder reads from the bytes scale_compact wrote as
\* many bytes as scale_compact returned, and the integer it reads is n.
C17_RoundTrip ==
  codec.fn = "u32" =>
    /\ codec.len = Len(codec.out)
    /\ CompactDecode(codec.out).used = codec.len
    /\ CompactDecode(codec.out).value = AsU128(codec.arg.n)

\* 16383 is written in four bytes and read back
C17_Witness ==
  /\ codec.fn = "u32" /\ codec.arg.n = LE(16383, U32Len)
  /\ codec.len = 4
  /\ CompactDecode(codec.out).value = LE(16383, U128Len)

\* C18: the encoded transfer is 0x05, 0x00, 0xFF, the 32 bytes of the
\* destination and the compact form of the amount, and encode returns 35 plus
\* the length of that form.
C18_TransferBytes ==
  codec.fn = "encode" =>
    /\ codec.out = <<5, 0, 255>> \o codec.arg.dest \o ScaleCompactU128(codec.arg.amount).out
    /\ codec.len = 35 + ScaleCompactU128(codec.arg.amount).len

\* the encoded call of the extrinsic of the last signed_tx
CallBytes == Encode(codec.arg.payload.method).out

\* C19: the bytes given to the signer are the encoded call, the era byte 0,
\* the compact forms of the nonce and of the tip 0, the spec version and the
\* transaction version in 4 little-endian bytes each, the genesis hash, and
\* the genesis hash again as the checkpoint, whatever block hash was fetched.
C19_SignerInput ==
  codec.fn = "signed_tx" =>
    codec.signed =
      CallBytes \o <<0>>
        \o ScaleCompactU128(AsU128(codec.arg.payload.nonce)).out
        \o ScaleCompactU128(LE(0, U128Len)).out
        \o <<1, 0, 0, 0>> \o <<1, 0, 0, 0>>
        \o codec.arg.payload.genesis \o codec.arg.payload.genesis

\* a transfer of 1 with nonce 7, the fetched block hash not the genesis hash
C19_Witness ==
  /\ codec.fn = "signed_tx"
  /\ codec.arg.payload.block_hash # codec.arg.payload.genesis
  /\ codec.arg.payload.nonce = LE(7, U32Len)
  /\ codec.arg.payload.method.amount = LE(1, U128Len)
  /\ Len(codec.signed) = 110

\* the bytes of the signed extrinsic before its call
ExtrinsicHead ==
  <<132>> \o codec.arg.public \o <<1>> \o codec.arg.sig \o <<0>>
    \o ScaleCompactU32(codec.arg.payload.nonce).out
    \o ScaleCompactU128(LE(0, U128Len)).out

\* C20: signed_tx writes 0x84, the key of the author, 0x01, the signature the
\* signer returned, the era byte 0, the compact forms of the nonce and of the
\* tip 0, and the encoded call, which is the bytes at the start of what was
\* signed; it returns the length of these bytes.
C20_SignedExtrinsic ==
  codec.fn = "signed_tx" =>
    /\ codec.out = ExtrinsicHead \o CallBytes
    /\ CallBytes = SubSeq(codec.signed, 1, Len(CallBytes))
    /\ Len(codec.arg.sig) = SignatureLen /\ Len(codec.arg.public) = HashLen
    /\ codec.len = Len(codec.out)

\* the largest transfer: a nonce of five bytes and an amount of seventeen
C20_Witness ==
  /\ codec.fn = "signed_tx"
  /\ codec.arg.payload.nonce = LE(2 ^ 30, U32Len)
  /\ codec.arg.payload.method.amount = [i \in 1..U128Len |-> 255]
  /\ codec.len = 156

\* C21: for every transfer the bytes given to the signer and the bytes of the
\* signed extrinsic are at most 252, the size of the buffer signed_tx writes
\* both to, and the encoded call is at most 64, the size of the buffer the call
\* is kept in: no write of signature_payload or signed_tx is outside them.
C21_WithinBuffers ==
  codec.fn = "signed_tx" =>
    /\ Len(codec.signed) <= MAXIMUM_PAYLOAD_SIZE_BYTES
    /\ Len(codec.out) <= MAXIMUM_PAYLOAD_SIZE_BYTES
    /\ Len(CallBytes) <= TempPackedCallLen

\* the largest transfer: 130 bytes signed, 156 written, a call of 51
C21_Witness ==
  /\ codec.fn = "signed_tx"
  /\ codec.arg.payload.nonce = LE(2 ^ 30, U32Len)
  /\ codec.arg.payload.method.amount = [i \in 1..U128Len |-> 255]
  /\ Len(codec.signed) = 130 /\ Len(codec.out) = 156 /\ Len(CallBytes) = 51

\* the positions, in the last call, of the requests framed for the method m
RequestsOf(m) == {i \in Positions("ws_write", "Text") : last.events[i].data = m}

\* the positions of the sends of a request for the method m
SendsOf(m) == {i \in Positions("send", "Text") : last.events[i].data = m}

\* the submissions
SubmitOps == {"balance_transfer", "submit_extrinsic"}

\* C22: the parameter sent with author_submitExtrinsic is the string "0x"
\* followed by the hex digits of the compact form of the length of the signed
\* extrinsic and by the hex digits of its bytes, and nothing else; the length
\* is above 0 and below 252.
C22_SubmitParam ==
  \A i \in RequestsOf("author_submitExtrinsic") \cup SendsOf("author_submitExtrinsic") :
    /\ last.op \in SubmitOps /\ codec.fn = "signed_tx"
    /\ 0 < codec.len /\ codec.len < MAXIMUM_PAYLOAD_SIZE_BYTES
    /\ codec.len = Len(codec.out)
    /\ last.events[i].arg =
         <<48, 120>> \o HexEncode(CompactBelow2Pow30(LE(codec.len, U32Len)) \o codec.out)

\* a transfer of 2^128 - 1 with a nonce of one byte is sent: 152 bytes, 2 + 4 +
\* 304 characters beginning with "0x6102" and the "84" of the version byte
C22_Witness ==
  /\ last.op = "balance_transfer" /\ last.res.tag = "Ok"
  /\ codec.len = 152
  /\ \E i \in SendsOf("author_submitExtrinsic") :
       /\ last.events[i].ret = "ok"
       /\ Len(last.events[i].arg) = 310
       /\ SubSeq(last.events[i].arg, 1, 8) = <<48, 120, 54, 49, 48, 50, 56, 52>>

\* The first request of a submission is that of get_nonce, its reply is read
\* at the fourth external call: the nonce of the AccountInfo get_nonce returns,
\* fetched or cached, and 0 when it returns an error.
FetchedNonce ==
  IF RpcGave(4)
  THEN IF Undecodable(GivenHex(4)) THEN LE(0, U32Len) ELSE SubSeq(info, 1, U32Len)
  ELSE IF last.info0 # None THEN SubSeq(last.info0, 1, U32Len) ELSE LE(0, U32Len)

\* its compact form: four bytes behind the prefix 3 from 2^30 on
FetchedNonceCompact ==
  IF Less(FetchedNonce, LE(2 ^ 30, U32Len)) THEN CompactBelow2Pow30(FetchedNonce)
  ELSE <<3>> \o FetchedNonce

\* get_nonce returned an error
GetNonceFailed ==
  IF RpcGave(4) THEN Undecodable(GivenHex(4)) ELSE last.info0 = None

ConnectFailed ==
  \E i \in DOMAIN last.events : last.events[i].ev = "connect" /\ last.events[i].ret = "error"

\* C24: Provider::new returns Ok exactly when the transport creates a socket,
\* whatever its connect returned, and the error of the rpc service otherwise;
\* after a new whose connect failed the transport reports no connection, so
\* that the next call of the Provider, which asks it, connects again.
C24_NewThenReconnect ==
  last.op = "new" =>
    /\ last.res.tag = "Ok" <=> (last.events[1].ev = "socket" /\ last.events[1].ret = "ok")
    /\ last.res.tag = "Ok" => phase = "ready" /\ Opens # {}
    /\ last.res.tag = "Err" => last.res = Err("TcpSocket.CannotCreate") /\ Opens = {}
    /\ (last.res.tag = "Ok" /\ ConnectFailed) => ~connected

\* the length of the signed extrinsic of the payload the last submission gave
\* to signed_tx: version, key, scheme, signature, era, nonce, tip and call
ExtrinsicSize ==
  1 + HashLen + 1 + SignatureLen + 1 + ScaleCompactU32(codec.arg.payload.nonce).len
    + 1 + CallEncode(codec.arg.payload.method).len

\* C25: a submission whose signed extrinsic does not fit the 252 bytes of the
\* buffer returns InvalidSize without a panic and sends no
\* author_submitExtrinsic.
C25_InvalidSizeWhenTooLarge ==
  (last.op \in SubmitOps /\ codec.fn # "none"
     /\ ExtrinsicSize >= MAXIMUM_PAYLOAD_SIZE_BYTES) =>
    /\ last.res = Err("InvalidSize")
    /\ phase # "panicked"
    /\ RequestsOf("author_submitExtrinsic") = {}

\* the requests the last call framed, in their order
Framed == SelectSeq(last.events, IsRequest)

\* the methods a submission calls, in their order: the genesis hash is asked
\* for only when the cache was empty
SubmitMethods ==
  <<"state_getStorage">>
    \o (IF last.genesis0 = None THEN <<"chain_getBlockHash">> ELSE <<>>)
    \o <<"chain_getBlockHash", "author_submitExtrinsic">>

\* the block number a submission gives to its k-th request, a
\* chain_getBlockHash
BlockNumberOf(k) == IF k = 2 /\ last.genesis0 = None THEN "[0]" ELSE ""

\* C26: the requests of one submission are, in this order, state_getStorage,
\* chain_getBlockHash of block 0 when the genesis hash is not cached,
\* chain_getBlockHash without a block, author_submitExtrinsic, up to the first
\* that ends it; author_submitExtrinsic is framed at most once, and only with
\* the genesis hash known and a block hash fetched; a failed fetch of the
\* genesis hash is followed by no other request, and a submission that built
\* no extrinsic returns an error.
C26_RequestOrder ==
  last.op \in SubmitOps =>
    /\ Len(Framed) <= Len(SubmitMethods)
    /\ \A k \in DOMAIN Framed :
         /\ Framed[k].data = SubmitMethods[k]
         /\ Framed[k].data = "chain_getBlockHash" => Framed[k].arg = BlockNumberOf(k)
    /\ Cardinality(RequestsOf("author_submitExtrinsic")) <= 1
    /\ RequestsOf("author_submitExtrinsic") # {} =>
         /\ genesis # None
         /\ codec.fn = "signed_tx"
         /\ codec.arg.payload.genesis = genesis
         /\ Len(codec.arg.payload.block_hash) = HashLen
    /\ genesis = None => Len(Framed) <= 2
    /\ codec.fn = "none" =>
         (RequestsOf("author_submitExtrinsic") = {} /\ last.res.tag = "Err")

\* a transfer that fetches the genesis hash and is sent: four requests
C26_Witness ==
  /\ last.op = "balance_transfer" /\ last.genesis0 = None /\ last.res.tag = "Ok"
  /\ Len(Framed) = 4
  /\ Framed[2].arg = "[0]" /\ Framed[3].arg = ""
  /\ Framed[4].data = "author_submitExtrinsic"

\* the calls that make one rpc_method
RpcOps == PassOps \cup {"get_info"}

\* C27: a call sends its request frame at most once and receives at most
\* once, after a send that returned the length of the frame; a send that
\* fails, or returns another count, is the last external call of the call and
\* no receive follows; a receive that fails is the last as well; the error is
\* what the rpc call returns.
C27_OneSendOneReceive ==
  last.op \in RpcOps =>
    /\ Cardinality(Positions("send", "Text")) <= 1
    /\ Cardinality(Positions("receive", "Text")) <= 1
    /\ Cardinality(Positions("ws_write", "Text")) <= 1
    /\ \A r \in Positions("receive", "Text") :
         /\ \E t \in Positions("send", "Text") : t < r /\ last.events[t].ret = "ok"
         /\ last.events[r].ret # "ok" =>
              /\ r = Len(last.events)
              /\ last.op \in PassOps => last.res = EmbeddedErr(last.events[r].ret)
    /\ \A t \in Positions("send", "Text") :
         last.events[t].ret # "ok" =>
           /\ t = Len(last.events)
           /\ Positions("receive", "Text") = {}
           /\ last.op \in PassOps =>
                last.res = IF last.events[t].ret = "short"
                           THEN Err("TcpSocket.CountNotMatching")
                           ELSE EmbeddedErr(last.events[t].ret)

\* the receive of system_name times out: one send, one receive, the error
C27_Witness ==
  /\ last.op = "system_name" /\ last.res = Err("Embedded.WouldBlock")
  /\ Cardinality(Positions("send", "Text")) = 1
  /\ \E r \in Positions("receive", "Text") :
       last.events[r].ret = "wouldblock" /\ r = Len(last.events)

\* the last call read, at position i, the reply to the request framed before
\* its own, whose id is one below
StaleReply(i) ==
  /\ EventIs(i, "ws_read", "Text") /\ last.events[i].arg = ""
  /\ last.events[i].body.wf
  /\ last.events[i].body.id = last.cmd0 - 1
  /\ \E k \in DOMAIN reqIds : reqIds[k] = last.cmd0 - 1

\* a result string returned as Ok is that of the reply to the call's request
OkResultIsOwn ==
  (last.op \in LateOps /\ last.res.tag = "Ok" /\ last.res.kind = "result") =>
    \E i \in DOMAIN last.events :
      /\ EventIs(i, "ws_read", "Text") /\ last.events[i].body.id = last.cmd0
      /\ last.events[i].body.rstr = last.res.str

\* C28: a call that reads the reply to the request of the call before it,
\* whose receive timed out, returns ResponseDoesNotMatch, whatever that reply
\* holds; every Ok is that of the reply to the call's own request.
C28_StaleReplyRejected ==
  last.op \in LateOps =>
    /\ \A i \in DOMAIN last.events :
         StaleReply(i) => last.res = Err("ResponseDoesNotMatch")
    /\ last.res.tag = "Ok" =>
         \E i \in DOMAIN last.events :
           EventIs(i, "ws_read", "Text") /\ last.events[i].body.id = last.cmd0

\* C28, amended: a call that reads the reply to the request of the call
\* before it returns ResponseDoesNotMatch when that reply has a result that
\* is a string, null or absent, and returns the whole reply as Ok when its
\* result is of another form, as that of state_getRuntimeVersion is; a result
\* string returned as Ok is that of the reply to the call's own request.
C28_StaleParsedRejected ==
  /\ last.op \in LateOps =>
       \A i \in DOMAIN last.events :
         StaleReply(i) =>
           last.res = IF ParsesAsJsonRpc(last.events[i].body)
                      THEN Err("ResponseDoesNotMatch")
                      ELSE OkBody(last.events[i].body)
  /\ OkResultIsOwn

\* the reply to the request before, a name, is read and refused
C28_Witness ==
  /\ last.op = "system_name" /\ last.res = Err("ResponseDoesNotMatch")
  /\ \E i \in DOMAIN last.events :
       StaleReply(i) /\ last.events[i].body.result = "string"

\* the encoder that executes was handed a value it hands over again
DelegatesBack ==
  /\ IsRunning /\ codec.arg.from # "caller"
  /\ IF codec.arg.at = "u32" THEN U32Delegates(codec.arg.v) ELSE U128Delegates(codec.arg.v)

\* C29: every call of scale_compact on a u32 or a u128 returns, and an
\* encoder that was handed a value by the other one writes it itself: the two
\* never hand a value back and forth.
C29_Terminates ==
  /\ [](~DelegatesBack)
  /\ (IsRunning ~> codec.fn = "returned")

\* the u32 2^30 - 1 went to the u128 encoder, which wrote its five bytes
C29_Witness ==
  /\ codec.fn = "returned" /\ codec.arg.entry = "u32"
  /\ codec.arg.n = LE(2 ^ 30 - 1, U32Len)
  /\ codec.arg.at = "u128" /\ codec.arg.from = "u32"
  /\ codec.out = <<3, 255, 255, 255, 63>> /\ codec.len = 5

\* the two bytes of (len << 2) | 1
TwoByteForm(len) == <<(4 * len + 1) % 256, (4 * len + 1) \div 256>>

\* C30: the signed extrinsic of a balance_transfer has at least 64 bytes and
\* fewer than 252 and than 2^14 - 1, so that the compact form of its length
\* has two bytes; the parameter sent begins with "0x" and the four hex digits
\* of that form; the transfer never returns InvalidSize and signed_tx never
\* runs out of its buffers.
C30_TransferLength ==
  last.op = "balance_transfer" =>
    /\ last.res # Err("InvalidSize")
    /\ codec.fn # "panic"
    /\ codec.fn = "signed_tx" =>
         /\ 64 <= codec.len /\ codec.len < 2 ^ 14 - 1
         /\ codec.len < MAXIMUM_PAYLOAD_SIZE_BYTES
         /\ ScaleCompactU32(LE(codec.len, U32Len)).len = 2
         /\ RequestsOf("author_submitExtrinsic") # {}
         /\ \A i \in RequestsOf("author_submitExtrinsic") :
              /\ Len(last.events[i].arg) = 2 + 4 + 2 * codec.len
              /\ SubSeq(last.events[i].arg, 1, 6)
                   = Prefix0x \o HexEncode(TwoByteForm(codec.len))

\* the longest transfer, 2^128 - 1 with the nonce 2^32 - 1, is sent: 156
\* bytes, a parameter that begins with "0x7102"
C30_Witness ==
  /\ last.op = "balance_transfer" /\ last.res.tag = "Ok"
  /\ codec.fn = "signed_tx" /\ codec.len = 156
  /\ codec.arg.payload.nonce = <<255, 255, 255, 255>>
  /\ \E i \in SendsOf("author_submitExtrinsic") :
       /\ last.events[i].ret = "ok"
       /\ SubSeq(last.events[i].arg, 1, 6) = <<48, 120, 55, 49, 48, 50>>

\* the calls of the Account that ask the node
InfoOps == {"get_info", "get_balance", "get_nonce"}

\* C31: a get_info, get_balance or get_nonce that returns an error, or whose
\* request failed so that it answers from the cache, leaves the cached
\* AccountInfo as it was before the call; no call of the Account, sign_tx
\* included, changes its public key, which stays that of its signer.
C31_AccountFrame ==
  /\ []((last.op \in InfoOps /\ (last.res.tag = "Err" \/ ~RpcOk)) => info = last.info0)
  /\ [](public = PublicKey)
  /\ [][public' = public]_vars

\* the receive of a get_balance times out with a full cache: the balance is
\* that of the cache, which is as it was, and the key is that of the signer
C31_Witness ==
  /\ last.op = "get_balance" /\ last.info0 # None /\ ~RpcOk
  /\ last.res = OkBytes(SubSeq(last.info0, 9, 24))
  /\ info = last.info0 /\ public = PublicKey

====
